---- MODULE Spec2Model ----
(***************************************************************************)
(* A model of bi-spec-builder: the functional and design requirement chats *)
(* (RequirementsChat, DesignRequirementsChat), the project editor and list *)
(* (ProjectEditor, ProjectList, App) and the task manager (TasksManager),  *)
(* over the relational store they write to.                                *)
(*                                                                         *)
(* Strings are sequences of one-character strings, so that split, trim,    *)
(* toLowerCase, includes and the regular expressions of the change         *)
(* interpreter are computed character by character.  A value that may be   *)
(* absent (a JS undefined, an SQL NULL) is a sequence of length 0 or 1:    *)
(* None or Some(v).                                                        *)
(*                                                                         *)
(* Every handler is one atomic action, the awaits and un-awaited saves it  *)
(* issues included; the one-second timers of the editor's debounced save   *)
(* are a separate action (SaveTimeoutFire).                                *)
(***************************************************************************)
EXTENDS Integers, Sequences, FiniteSets, TLC

(***************************************************************************)
(* Bounds of the model.                                                    *)
(***************************************************************************)
\* Projects created in a run of the project lifecycle.
MaxProjects == 3

\* Projects created in a run of the chats and of the task manager.
MaxChatProjects == 1

\* Tasks created in a run.
MaxTasks == 3

\* Rows of additional_requirements in the store.
MaxAdditional == 1

\* History rows of type update one project gets.
MaxUpdates == 2

\* Operations of one session that have read the store and not yet written.
MaxHistory == 5

MaxInflight == 2

(***************************************************************************)
(* Optional values.                                                        *)
(***************************************************************************)
None == <<>>

Some(v) == <<v>>

IsSome(o) == Len(o) = 1

Val(o) == o[1]

\* The sequence without its i-th element.
removeAt(seq, i) == SubSeq(seq, 1, i - 1) \o SubSeq(seq, i + 1, Len(seq))

(***************************************************************************)
(* Strings: JavaScript's String methods, on sequences of characters.       *)
(***************************************************************************)
UpperChars ==
    <<"A", "B", "C", "D", "E", "F", "G", "H", "I", "J", "K", "L", "M", "N", "O", "P", "Q", "R",
      "S", "T", "U", "V", "W", "X", "Y", "Z">>

LowerChars ==
    <<"a", "b", "c", "d", "e", "f", "g", "h", "i", "j", "k", "l", "m", "n", "o", "p", "q", "r",
      "s", "t", "u", "v", "w", "x", "y", "z">>

\* The lower-case letter of each upper-case one.
LowerOf == [c \in {UpperChars[i] : i \in 1..Len(UpperChars)} |->
                LowerChars[CHOOSE i \in 1..Len(UpperChars) : UpperChars[i] = c]]

LowerChar(c) == IF c \in DOMAIN LowerOf THEN LowerOf[c] ELSE c

toLowerCase(s) == [i \in 1..Len(s) |-> LowerChar(s[i])]

IsSpace(c) == c = " "

\* The index of the first character of s, from index i on, that is not white
\* space (Len(s) + 1 when there is none).
RECURSIVE SkipSpaces(_, _)
SkipSpaces(s, i) ==
    IF i > Len(s) THEN Len(s) + 1
    ELSE IF IsSpace(s[i]) THEN SkipSpaces(s, i + 1)
    ELSE i

RECURSIVE trimEnd(_)
trimEnd(s) ==
    IF s = <<>> THEN <<>>
    ELSE IF IsSpace(s[Len(s)]) THEN trimEnd(SubSeq(s, 1, Len(s) - 1))
    ELSE s

trim(s) == trimEnd(SubSeq(s, SkipSpaces(s, 1), Len(s)))

\* s has sub at index i (1-based).
HasAt(s, sub, i) ==
    /\ i >= 1
    /\ i + Len(sub) - 1 <= Len(s)
    /\ \A k \in 1..Len(sub) : s[i + k - 1] = sub[k]

\* s has the lower-case sub at index i, the case of s ignored.
HasAtIgnoringCase(s, sub, i) ==
    /\ i >= 1
    /\ i + Len(sub) - 1 <= Len(s)
    /\ \A k \in 1..Len(sub) : LowerChar(s[i + k - 1]) = sub[k]

startsWith(s, sub) == HasAt(s, sub, 1)

includes(s, sub) == \E i \in 1..(Len(s) + 1) : HasAt(s, sub, i)

\* s.split(','): the pieces between the commas, the empty ones included; the
\* empty string splits into one empty piece.
RECURSIVE splitFrom(_, _, _)
splitFrom(s, i, piece) ==
    IF i > Len(s) THEN <<piece>>
    ELSE IF s[i] = "," THEN <<piece>> \o splitFrom(s, i + 1, <<>>)
    ELSE splitFrom(s, i + 1, Append(piece, s[i]))

split(s) == splitFrom(s, 1, <<>>)

\* list.map(s => s.trim())
mapTrim(list) == [i \in 1..Len(list) |-> trim(list[i])]

\* list.filter(s => s): the non-empty strings of the list, in order.
RECURSIVE filterNonEmpty(_)
filterNonEmpty(list) ==
    IF list = <<>> THEN <<>>
    ELSE IF Head(list) = <<>> THEN filterNonEmpty(Tail(list))
    ELSE <<Head(list)>> \o filterNonEmpty(Tail(list))

\* list.join(sep)
RECURSIVE join(_, _)
join(list, sep) ==
    IF list = <<>> THEN <<>>
    ELSE IF Len(list) = 1 THEN list[1]
    ELSE list[1] \o sep \o join(Tail(list), sep)

(***************************************************************************)
(* The regular expressions of RequirementsChat.handleChangeRequest.  A     *)
(* field pattern ('name', 'metric[s]?', 'data\s*source[s]?') is the        *)
(* sequence of the lower-case literals it matches, the one the greedy      *)
(* quantifiers prefer first.  All matching ignores case (flag i).          *)
(***************************************************************************)

\* The capture of \s+(.+) anchored at index j of s: at least one white space,
\* then the rest of the string.  \s+ is greedy and gives one character back
\* when the white space runs to the end of the string.
RestAfterSpaces(s, j) ==
    IF j > Len(s) \/ ~IsSpace(s[j]) THEN None
    ELSE IF SkipSpaces(s, j) <= Len(s) THEN Some(SubSeq(s, SkipSpaces(s, j), Len(s)))
    ELSE IF Len(s) - j + 1 >= 2 THEN Some(<<s[Len(s)]>>)
    ELSE None

\* The capture of \s+to\s+(.+) anchored at index j of s.
ToCapture(s, j) ==
    IF j > Len(s) \/ ~IsSpace(s[j]) THEN None
    ELSE IF HasAtIgnoringCase(s, <<"t", "o">>, SkipSpaces(s, j))
         THEN RestAfterSpaces(s, SkipSpaces(s, j) + 2)
         ELSE None

\* The places <<i, a>> where alternative a of the field pattern stands at index
\* i of s.
FieldAt(s, alts) ==
    {p \in (1..Len(s)) \X (1..Len(alts)) : HasAtIgnoringCase(s, alts[p[2]], p[1])}

\* The first of a non-empty set of places: leftmost index, then the preferred
\* alternative.
FirstPlace(ps) ==
    CHOOSE p \in ps : \A q \in ps : p[1] < q[1] \/ (p[1] = q[1] /\ p[2] <= q[2])

\* The last index of a non-empty set of places, with the preferred alternative.
LastPlace(ps) ==
    CHOOSE p \in ps : \A q \in ps : p[1] > q[1] \/ (p[1] = q[1] /\ p[2] <= q[2])

\* userInput.match(new RegExp(`${field}\\s+to\\s+(.+)`, 'i')): its group 1.
toMatch(userInput, alts) ==
    LET ps == {p \in FieldAt(userInput, alts) :
                   IsSome(ToCapture(userInput, p[1] + Len(alts[p[2]])))}
    IN  IF ps = {} THEN None
        ELSE ToCapture(userInput, FirstPlace(ps)[1] + Len(alts[FirstPlace(ps)[2]]))

ChangeWords == << <<"c", "h", "a", "n", "g", "e">>, <<"u", "p", "d", "a", "t", "e">> >>

\* userInput.match(/(?:change|update)\s+(.+)/i): its group 1.
changeMatch(userInput) ==
    LET ps == {p \in FieldAt(userInput, ChangeWords) :
                   IsSome(RestAfterSpaces(userInput, p[1] + Len(ChangeWords[p[2]])))}
    IN  IF ps = {} THEN None
        ELSE RestAfterSpaces(userInput, FirstPlace(ps)[1] + Len(ChangeWords[FirstPlace(ps)[2]]))

\* s.replace(new RegExp(`^${field}\\s*`, 'i'), '')
stripLeadingField(s, alts) ==
    LET ps == {p \in FieldAt(s, alts) : p[1] = 1}
    IN  IF ps = {} THEN s
        ELSE SubSeq(s, SkipSpaces(s, 1 + Len(alts[FirstPlace(ps)[2]])), Len(s))

\* s.replace(new RegExp(`.*${field}\\s*`, 'i'), '')
stripThroughField(s, alts) ==
    LET ps == FieldAt(s, alts)
    IN  IF ps = {} THEN s
        ELSE SubSeq(s, SkipSpaces(s, LastPlace(ps)[1] + Len(alts[LastPlace(ps)[2]])), Len(s))

extractValue(userInput, alts) ==
    IF IsSome(toMatch(userInput, alts)) THEN Val(toMatch(userInput, alts))
    ELSE IF IsSome(changeMatch(userInput))
         THEN trim(stripLeadingField(Val(changeMatch(userInput)), alts))
         ELSE trim(stripThroughField(userInput, alts))

(***************************************************************************)
(* State.  The store's tables first, then the state of each component.     *)
(***************************************************************************)
VARIABLES
    projects,                \* table projects: id -> row, for the rows that exist
    functional_requirements, \* table functional_requirements, a sequence of rows
    design_requirements,     \* table design_requirements
    dashboard_tabs,          \* table dashboard_tabs
    filters,                 \* table filters
    additional_requirements, \* table additional_requirements
    tasks,                   \* table tasks
    change_history,          \* table change_history
    nextProjectId,           \* the next generated projects.id
    nextTaskId,              \* the next generated tasks.id
    app,                     \* App: selectedProjectId, creatingNew, newProjectName
    listDeleteDialog,        \* ProjectList.showDeleteDialog: a project id, or 0
    editor,                  \* ProjectEditor: project, activeTab and its two dialogs
    saveTimeout,             \* ProjectEditor.saveTimeoutRef: the pending debounced save
    orphanTimeouts,          \* the pending saves of editors that are no longer mounted
    conversationState,       \* RequirementsChat.conversationState: step, data
    designState,             \* DesignRequirementsChat.conversationState: step, data
    taskList,                \* TasksManager.tasks
    draggedTaskId,           \* TasksManager.draggedTaskId: a task id, or 0
    user,                    \* AuthContext.user: the id of the user who is signed in
    download,                \* the name of the last file handed to the browser, if any
    inflight,                \* the operations that have read the store and not yet written
    otherChat                \* the functional chat of a second session, if one is open

sessionVars == <<user, download, inflight, otherChat>>

\* The users who have an account, and the user of a session that is signed out.
Users == {"u1", "u2"}

NoUser == "null"

dbVars == <<projects, functional_requirements, design_requirements, dashboard_tabs,
            filters, additional_requirements, tasks, change_history, nextProjectId,
            nextTaskId>>

uiVars == <<app, listDeleteDialog, editor, saveTimeout, orphanTimeouts, conversationState, designState,
            taskList, draggedTaskId, sessionVars>>

editorVars == <<app, listDeleteDialog, editor, saveTimeout, orphanTimeouts, conversationState,
                designState, taskList, draggedTaskId>>

vars == <<projects, functional_requirements, design_requirements, dashboard_tabs,
          filters, additional_requirements, tasks, change_history, nextProjectId,
          nextTaskId, app, listDeleteDialog, editor, saveTimeout, orphanTimeouts,
          conversationState, designState, taskList, draggedTaskId, sessionVars>>

\* The rows of a table that satisfy Test, in table order.
Select(table, Test(_)) == SelectSeq(table, Test)

\* .maybeSingle(): the row when exactly one matches, otherwise no data.
maybeSingle(rows) == IF Len(rows) = 1 THEN Some(rows[1]) ELSE None

\* .order('order_index'): the rows by ascending order_index, ties in table order.
RECURSIVE orderByIndex(_)
orderByIndex(rows) ==
    IF rows = <<>> THEN <<>>
    ELSE LET i == CHOOSE i \in 1..Len(rows) :
                      /\ \A j \in 1..Len(rows) : rows[i].order_index <= rows[j].order_index
                      /\ \A j \in 1..(i - 1) : rows[j].order_index > rows[i].order_index
         IN  <<rows[i]>> \o orderByIndex(SubSeq(rows, 1, i - 1) \o SubSeq(rows, i + 1, Len(rows)))

\* The project open in the editor (its id), or 0.
OpenProjectId == IF IsSome(editor.project) THEN Val(editor.project).id ELSE 0

(***************************************************************************)
(* RequirementsChat: the functional flow.                                  *)
(***************************************************************************)
FunctionalSteps == <<"name", "description", "audience", "data_sources", "metrics", "tabs",
                     "filters", "appendix", "metric_logic", "additional", "complete">>

EmptyData ==
    [name |-> None, description |-> None, audience |-> None, data_sources |-> None,
     metrics |-> None, tabs |-> None, filters |-> None, has_appendix |-> None,
     has_metric_logic |-> None, additional_requirements |-> None]

\* if (v) for a string that may be undefined; an array is truthy even when empty.
TruthyString(o) == IsSome(o) /\ Val(o) # <<>>

\* A string column as a data entry: kept only if (value).
IfTruthy(s) == IF s # <<>> THEN Some(s) ELSE None

\* A list column as a data entry: kept only if (list?.length > 0).
IfNonEmptyList(o) == IF IsSome(o) /\ Len(Val(o)) > 0 THEN o ELSE None

loadExistingRequirements(projs, projectId) ==
    LET funcReqs == maybeSingle(Select(functional_requirements, LAMBDA r : r.project_id = projectId))
        tabs == orderByIndex(Select(dashboard_tabs, LAMBDA r : r.project_id = projectId))
        filterRows == Select(filters, LAMBDA r : r.tab_id = 0)
        additionalReqs == Select(additional_requirements,
                                 LAMBDA r : r.project_id = projectId /\ r.category = "functional")
        project == projs[projectId]
        has == projectId \in DOMAIN projs
    IN  [name |-> IF has THEN IfTruthy(project.name) ELSE None,
         description |-> IF has THEN IfTruthy(project.description) ELSE None,
         audience |-> IF has THEN IfTruthy(project.audience) ELSE None,
         has_appendix |-> IF has THEN project.has_appendix_tab ELSE None,
         has_metric_logic |-> IF has THEN project.has_metric_logic_tab ELSE None,
         data_sources |-> IF IsSome(funcReqs) THEN IfNonEmptyList(Val(funcReqs).data_sources) ELSE None,
         metrics |-> IF IsSome(funcReqs) THEN IfNonEmptyList(Val(funcReqs).metrics) ELSE None,
         tabs |-> IF Len(tabs) > 0
                  THEN Some(join([i \in 1..Len(tabs) |-> tabs[i].name], <<",", " ">>))
                  ELSE None,
         filters |-> IF Len(filterRows) > 0
                     THEN Some([i \in 1..Len(filterRows) |-> filterRows[i].name])
                     ELSE None,
         additional_requirements |->
             IF Len(additionalReqs) > 0
             THEN Some([i \in 1..Len(additionalReqs) |-> additionalReqs[i].content])
             ELSE None]

determineNextStep(data) ==
    IF ~TruthyString(data.name) THEN "name"
    ELSE IF ~TruthyString(data.description) THEN "description"
    ELSE IF ~TruthyString(data.audience) THEN "audience"
    ELSE IF ~IsSome(data.data_sources) THEN "data_sources"
    ELSE IF ~IsSome(data.metrics) THEN "metrics"
    ELSE IF ~TruthyString(data.tabs) THEN "tabs"
    ELSE IF ~IsSome(data.filters) THEN "filters"
    ELSE IF ~IsSome(data.has_appendix) THEN "appendix"
    ELSE IF ~IsSome(data.has_metric_logic) THEN "metric_logic"
    ELSE "additional"

\* initializeChat: the conversation state a freshly mounted chat computes, projs
\* being the projects table it reads.
initializeChat(projs, projectId) ==
    [step |-> determineNextStep(loadExistingRequirements(projs, projectId)),
     data |-> loadExistingRequirements(projs, projectId)]

\* The literals the chat compares its input with.
S_none == <<"n", "o", "n", "e">>

S_no == <<"n", "o">>

S_yes == <<"y", "e", "s">>

S_done == <<"d", "o", "n", "e">>

S_help == <<"h", "e", "l", "p">>

S_question == <<"?">>

S_change == <<"c", "h", "a", "n", "g", "e", " ">>

S_update == <<"u", "p", "d", "a", "t", "e", " ">>

S_to == <<" ", "t", "o", " ">>

S_name == <<"n", "a", "m", "e">>

S_description == <<"d", "e", "s", "c", "r", "i", "p", "t", "i", "o", "n">>

S_audience == <<"a", "u", "d", "i", "e", "n", "c", "e">>

S_data_source == <<"d", "a", "t", "a", " ", "s", "o", "u", "r", "c", "e">>

S_metric == <<"m", "e", "t", "r", "i", "c">>

S_tab == <<"t", "a", "b">>

S_filter == <<"f", "i", "l", "t", "e", "r">>

\* The field patterns handed to extractValue.  'data\s*source[s]?' is listed
\* with no and with one white space between its two words.
P_name == <<S_name>>

P_description == <<S_description>>

P_audience == <<S_audience>>

P_data_source ==
    <<S_data_source \o <<"s">>, S_data_source,
      <<"d", "a", "t", "a", "s", "o", "u", "r", "c", "e", "s">>,
      <<"d", "a", "t", "a", "s", "o", "u", "r", "c", "e">> >>

P_metric == <<S_metric \o <<"s">>, S_metric>>

P_tab == <<S_tab \o <<"s">>, S_tab>>

P_filter == <<S_filter \o <<"s">>, S_filter>>

\* A call the chat makes on its way: kind names the callee, arg its argument.
Effect(kind, arg) == [kind |-> kind, arg |-> arg]

\* ProjectEditor.handleProjectUpdateFromChat: name, description and audience
\* go to the debounced save, the two flags to updateProject.
handleProjectUpdateFromChat(field, value) ==
    IF field \in {"name", "description", "audience"}
    THEN Effect("debouncedSave", [field |-> field, value |-> value])
    ELSE Effect("updateProject", [field |-> field, value |-> value])

NoUpdates == [data_sources |-> None, metrics |-> None]

\* userInput.split(',').map(s => s.trim())
parseList(userInput) == mapTrim(split(userInput))

Reply(step, data, effects) == [newState |-> [step |-> step, data |-> data], effects |-> effects]

\* Which branch of handleChangeRequest takes the message: the first field, in
\* the order of the code, whose keyword the message includes and for which
\* extractValue returns a non-empty string; "none" when there is no such field.
changeBranch(userInput) ==
    LET input == toLowerCase(userInput)
    IN  IF includes(input, S_name) /\ extractValue(userInput, P_name) # <<>> THEN "name"
        ELSE IF includes(input, S_description) /\ extractValue(userInput, P_description) # <<>>
             THEN "description"
        ELSE IF includes(input, S_audience) /\ extractValue(userInput, P_audience) # <<>>
             THEN "audience"
        ELSE IF includes(input, S_data_source) /\ extractValue(userInput, P_data_source) # <<>>
             THEN "data_sources"
        ELSE IF includes(input, S_metric) /\ extractValue(userInput, P_metric) # <<>>
             THEN "metrics"
        ELSE IF includes(input, S_tab) /\ extractValue(userInput, P_tab) # <<>> THEN "tabs"
        ELSE IF includes(input, S_filter) /\ extractValue(userInput, P_filter) # <<>>
             THEN "filters"
        ELSE "none"

\* The field pattern of a branch.
patternOf(branch) ==
    CASE branch = "name" -> P_name
      [] branch = "description" -> P_description
      [] branch = "audience" -> P_audience
      [] branch = "data_sources" -> P_data_source
      [] branch = "metrics" -> P_metric
      [] branch = "tabs" -> P_tab
      [] branch = "filters" -> P_filter

\* What a branch of handleChangeRequest does with the value it extracted.
changeApplied(branch, newValue, data) ==
    CASE branch = "name" ->
             Reply("additional", [data EXCEPT !.name = Some(newValue)],
                   <<handleProjectUpdateFromChat("name", newValue),
                     Effect("saveFunctionalRequirements", NoUpdates)>>)
      [] branch \in {"description", "audience"} ->
             Reply("additional", [data EXCEPT ![branch] = Some(newValue)],
                   <<handleProjectUpdateFromChat(branch, newValue)>>)
      [] branch \in {"data_sources", "metrics"} ->
             Reply("additional", [data EXCEPT ![branch] = Some(parseList(newValue))],
                   <<Effect("saveFunctionalRequirements",
                            [NoUpdates EXCEPT ![branch] = Some(parseList(newValue))])>>)
      [] branch = "tabs" ->
             Reply("additional", [data EXCEPT !.tabs = Some(newValue)],
                   <<Effect("saveTabs", newValue)>>)
      [] branch = "filters" ->
             Reply("additional", [data EXCEPT !.filters = Some(parseList(newValue))],
                   <<Effect("saveFilters", parseList(newValue))>>)

changeReply(branch, userInput, data) ==
    IF branch = "none" THEN Reply("additional", data, <<>>)
    ELSE changeApplied(branch, extractValue(userInput, patternOf(branch)), data)

handleChangeRequest(userInput, data) == changeReply(changeBranch(userInput), userInput, data)

\* A chat that takes no input for an edit command, for C11 to tell from the
\* code's.
neverAnEdit(userInput) == FALSE

\* The test of the additional and complete steps for an edit command.
looksLikeChange(userInput) ==
    \/ startsWith(toLowerCase(userInput), S_change)
    \/ startsWith(toLowerCase(userInput), S_update)
    \/ includes(toLowerCase(userInput), S_to)

\* newData.additional_requirements.push(userInput)
pushAdditional(data, userInput) ==
    [data EXCEPT !.additional_requirements =
        Some((IF IsSome(@) THEN Val(@) ELSE <<>>) \o <<userInput>>)]

\* A chat that asks the same question again, for C3 to tell from the code's.
stepRepeated(step) == step

\* The step generateResponse names as the next one after a step of the
\* questionnaire.
nextFunctionalStep(step) ==
    CASE step = "name" -> "description"
      [] step = "description" -> "audience"
      [] step = "audience" -> "data_sources"
      [] step = "data_sources" -> "metrics"
      [] step = "metrics" -> "tabs"
      [] step = "tabs" -> "filters"
      [] step = "filters" -> "appendix"
      [] step = "appendix" -> "metric_logic"
      [] step = "metric_logic" -> "additional"

\* What the filters step stores for an input.
parseFilters(userInput) ==
    IF toLowerCase(userInput) = S_none THEN <<>> ELSE parseList(userInput)

generateResponse(userInput, state) ==
    LET step == state.step
        data == state.data
    IN  CASE step \in {"name", "description", "audience"} ->
                 Reply(nextFunctionalStep(step), [data EXCEPT ![step] = Some(userInput)],
                       <<handleProjectUpdateFromChat(step, userInput)>>)
          [] step = "data_sources" ->
                 Reply(nextFunctionalStep(step),
                       [data EXCEPT !.data_sources = Some(parseList(userInput))],
                       <<Effect("saveFunctionalRequirements",
                                [NoUpdates EXCEPT !.data_sources = Some(parseList(userInput))])>>)
          [] step = "metrics" ->
                 Reply(nextFunctionalStep(step),
                       [data EXCEPT !.metrics = Some(parseList(userInput))],
                       <<Effect("saveFunctionalRequirements",
                                [NoUpdates EXCEPT !.metrics = Some(parseList(userInput))])>>)
          [] step = "tabs" ->
                 Reply(nextFunctionalStep(step), [data EXCEPT !.tabs = Some(userInput)],
                       <<Effect("saveTabs", userInput)>>)
          [] step = "filters" ->
                 Reply(nextFunctionalStep(step),
                       [data EXCEPT !.filters = Some(parseFilters(userInput))],
                       <<Effect("saveFilters", parseFilters(userInput))>>)
          [] step = "appendix" ->
                 LET yes == includes(toLowerCase(userInput), S_yes)
                 IN  Reply(nextFunctionalStep(step), [data EXCEPT !.has_appendix = Some(yes)],
                           <<handleProjectUpdateFromChat("has_appendix_tab", Some(yes))>>)
          [] step = "metric_logic" ->
                 LET yes == includes(toLowerCase(userInput), S_yes)
                 IN  Reply(nextFunctionalStep(step),
                           [data EXCEPT !.has_metric_logic = Some(yes)],
                           <<handleProjectUpdateFromChat("has_metric_logic_tab", Some(yes))>>)
          [] step = "additional" ->
                 IF toLowerCase(userInput) = S_done THEN Reply("complete", data, <<>>)
                 ELSE IF toLowerCase(userInput) \in {S_help, S_question}
                      THEN Reply("additional", data, <<>>)
                 ELSE IF looksLikeChange(userInput) THEN handleChangeRequest(userInput, data)
                 ELSE Reply("additional", pushAdditional(data, userInput),
                            <<Effect("saveAdditionalRequirement", userInput)>>)
          [] step = "change_request" -> handleChangeRequest(userInput, data)
          [] step = "complete" ->
                 IF toLowerCase(userInput) \in {S_help, S_question}
                 THEN Reply("complete", data, <<>>)
                 ELSE IF looksLikeChange(userInput) THEN handleChangeRequest(userInput, data)
                 ELSE Reply("complete", pushAdditional(data, userInput),
                            <<Effect("saveAdditionalRequirement", userInput)>>)
          [] OTHER -> Reply(step, data, <<>>)

\* The argument of the first effect of a kind, if there is one.
EffectOf(effects, kind) ==
    IF \E i \in 1..Len(effects) : effects[i].kind = kind
    THEN Some(effects[CHOOSE i \in 1..Len(effects) :
                          /\ effects[i].kind = kind
                          /\ \A j \in 1..(i - 1) : effects[j].kind # kind].arg)
    ELSE None

\* A column an update names gets the update's value.
Merged(old, new) == IF IsSome(new) THEN new ELSE old

\* RequirementsChat.saveFunctionalRequirements: update the project's row when
\* the select finds one, insert one otherwise.
saveFunctionalRequirements(table, projectId, updates) ==
    IF IsSome(maybeSingle(Select(table, LAMBDA r : r.project_id = projectId)))
    THEN [i \in 1..Len(table) |->
              IF table[i].project_id = projectId
              THEN [table[i] EXCEPT !.data_sources = Merged(@, updates.data_sources),
                                    !.metrics = Merged(@, updates.metrics)]
              ELSE table[i]]
    ELSE Append(table, [project_id |-> projectId, data_sources |-> updates.data_sources,
                        metrics |-> updates.metrics])

\* RequirementsChat.saveTabs: the project's tabs are deleted, then the
\* answer's tabs inserted with order_index 0, 1, ...
saveTabs(table, projectId, tabsInput) ==
    LET tabNames == IF includes(tabsInput, <<",">>) THEN parseList(tabsInput)
                    ELSE <<trim(tabsInput)>>
    IN  Select(table, LAMBDA r : r.project_id # projectId)
        \o [i \in 1..Len(tabNames) |->
                [project_id |-> projectId, name |-> tabNames[i], order_index |-> i - 1]]

\* RequirementsChat.saveFilters: every filter with no tab is deleted, then the
\* answer's filters inserted, with no tab and no project.
saveFilters(table, filterNames) ==
    Select(table, LAMBDA r : r.tab_id # 0)
    \o [i \in 1..Len(filterNames) |->
            [project_id |-> 0, tab_id |-> 0, name |-> filterNames[i], data_source |-> <<>>,
             multi_select |-> FALSE]]

saveAdditionalRequirement(table, projectId, content) ==
    Append(table, [project_id |-> projectId, category |-> "functional", content |-> content])

RECURSIVE functionalRequirementsAfter(_, _, _)
functionalRequirementsAfter(effects, projectId, table) ==
    IF effects = <<>> THEN table
    ELSE functionalRequirementsAfter(
             Tail(effects), projectId,
             IF Head(effects).kind = "saveFunctionalRequirements"
             THEN saveFunctionalRequirements(table, projectId, Head(effects).arg)
             ELSE table)

(***************************************************************************)
(* ProjectEditor: the saves the chats and the header reach.                *)
(***************************************************************************)
\* createChangeHistory: the row is inserted for the user who is signed in.
createChangeHistory(table, projectId, changeType) ==
    Append(table, [project_id |-> projectId, change_type |-> changeType, changed_by |-> user])

\* The update of updateProject and of the debounced save: the row with the id,
\* when there is one.
updateRow(table, id, field, value) ==
    IF id \in DOMAIN table THEN [table EXCEPT ![id][field] = value] ELSE table

\* updateProject(updates): the row is updated, the editor's copy follows and a
\* history row of type update is appended.
updateProject(field, value) ==
    /\ IsSome(editor.project)
    /\ projects' = updateRow(projects, OpenProjectId, field, value)
    /\ editor' = [editor EXCEPT !.project = Some([Val(@) EXCEPT ![field] = value])]
    /\ change_history' = createChangeHistory(change_history, OpenProjectId, "update")

\* debouncedSave(updates): the pending timer is cleared and a new one started.
debouncedSave(field, value) ==
    Some([projectId |-> OpenProjectId, field |-> field, value |-> value])

(***************************************************************************)
(* DesignRequirementsChat: the design flow.                                *)
(***************************************************************************)
DesignSteps == <<"dashboard_size", "color_palette", "fonts", "logo", "additional", "complete">>

EmptyDesignData ==
    [dashboard_size |-> None, color_palette |-> None, fonts |-> None, logo_url |-> None,
     logo_location |-> None, additional_requirements |-> None]

\* A string column that may be NULL, as a data entry: kept only if (value).
IfTruthyColumn(o) == IF TruthyString(o) THEN o ELSE None

designLoadExistingRequirements(projectId) ==
    LET designReqs == maybeSingle(Select(design_requirements, LAMBDA r : r.project_id = projectId))
        row == Val(designReqs)
    IN  IF IsSome(designReqs)
        THEN [dashboard_size |-> IfTruthyColumn(row.dashboard_size),
              color_palette |-> IfNonEmptyList(row.color_palette),
              fonts |-> IfNonEmptyList(row.fonts),
              logo_url |-> IfTruthyColumn(row.logo_url),
              logo_location |-> IfTruthyColumn(row.logo_location),
              additional_requirements |-> IfTruthyColumn(row.additional_requirements)]
        ELSE EmptyDesignData

designDetermineNextStep(data) ==
    IF ~TruthyString(data.dashboard_size) THEN "dashboard_size"
    ELSE IF ~IsSome(data.color_palette) THEN "color_palette"
    ELSE IF ~IsSome(data.fonts) THEN "fonts"
    ELSE IF ~TruthyString(data.logo_url) THEN "logo"
    ELSE IF ~TruthyString(data.additional_requirements) THEN "additional"
    ELSE "complete"

designInitializeChat(projectId) ==
    [step |-> designDetermineNextStep(designLoadExistingRequirements(projectId)),
     data |-> designLoadExistingRequirements(projectId)]

\* userInput.split(',').map(c => c.trim()).filter(c => c)
designParseList(userInput) == filterNonEmpty(mapTrim(split(userInput)))

\* The columns one step of processUserInput saves: those that are Some.
designUpdates(step, userInput) ==
    CASE step = "dashboard_size" -> [EmptyDesignData EXCEPT !.dashboard_size = Some(userInput)]
      [] step = "color_palette" ->
             [EmptyDesignData EXCEPT !.color_palette = Some(designParseList(userInput))]
      [] step = "fonts" -> [EmptyDesignData EXCEPT !.fonts = Some(designParseList(userInput))]
      [] step = "logo" ->
             IF \/ includes(toLowerCase(userInput), S_none)
                \/ includes(toLowerCase(userInput), S_no)
             THEN [EmptyDesignData EXCEPT !.logo_url = Some(<<>>), !.logo_location = Some(S_none)]
             ELSE [EmptyDesignData EXCEPT !.logo_location = Some(userInput)]
      [] step = "additional" ->
             [EmptyDesignData EXCEPT !.additional_requirements = Some(userInput)]
      [] OTHER -> EmptyDesignData

\* {...data, ...updates}
designMerge(data, updates) == [k \in DOMAIN data |-> Merged(data[k], updates[k])]

\* The conversation state after processUserInput; at complete the input goes
\* to handleFreeformUpdate, which changes neither the state nor the store.
processUserInput(userInput, state) ==
    IF state.step = "complete" THEN state
    ELSE [step |-> designDetermineNextStep(
                       designMerge(state.data, designUpdates(state.step, userInput))),
          data |-> designMerge(state.data, designUpdates(state.step, userInput))]

\* DesignRequirementsChat.saveDesignRequirements
saveDesignRequirements(table, projectId, updates) ==
    IF IsSome(maybeSingle(Select(table, LAMBDA r : r.project_id = projectId)))
    THEN [i \in 1..Len(table) |->
              IF table[i].project_id = projectId
              THEN [k \in DOMAIN table[i] |->
                        IF k = "project_id" THEN projectId ELSE Merged(table[i][k], updates[k])]
              ELSE table[i]]
    ELSE Append(table, [k \in DOMAIN updates \cup {"project_id"} |->
                            IF k = "project_id" THEN projectId ELSE updates[k]])

(***************************************************************************)
(* TasksManager.                                                           *)
(***************************************************************************)
\* loadTasks: the project's tasks by order_index.
loadTasks(projectId) == orderByIndex(Select(tasks, LAMBDA r : r.project_id = projectId))

(***************************************************************************)
(* What the editor shows.  A component's state lives while it is mounted:  *)
(* the chat of the active tab, or the task manager.  Mounting a chat runs  *)
(* its initializeChat, mounting the task manager its loadTasks; the state  *)
(* of a component that is not mounted is its useState default.             *)
(***************************************************************************)
InitialConversationState == [step |-> "name", data |-> EmptyData]

InitialDesignState == [step |-> "dashboard_size", data |-> EmptyDesignData]

EditorTabs == {"functional", "design", "tasks", "history"}

MountTab(tab, projs, projectId) ==
    /\ conversationState' = IF tab = "functional" THEN initializeChat(projs, projectId)
                            ELSE InitialConversationState
    /\ designState' = IF tab = "design" THEN designInitializeChat(projectId)
                      ELSE InitialDesignState
    /\ taskList' = IF tab = "tasks" THEN loadTasks(projectId) ELSE <<>>
    /\ draggedTaskId' = 0
    /\ UNCHANGED sessionVars

UnmountEditor ==
    /\ conversationState' = InitialConversationState
    /\ designState' = InitialDesignState
    /\ taskList' = <<>>
    /\ draggedTaskId' = 0
    /\ UNCHANGED sessionVars

\* A click on one of the editor's four tab buttons.
SetActiveTab(tab) ==
    /\ IsSome(editor.project)
    /\ tab # editor.activeTab
    /\ editor' = [editor EXCEPT !.activeTab = tab]
    /\ MountTab(tab, projects, OpenProjectId)
    /\ UNCHANGED <<dbVars, app, listDeleteDialog, saveTimeout, orphanTimeouts>>

\* A Send that rejects the empty string only, for C10 to tell from the code's.
isEmptyString(input) == input = <<>>

\* if (!input.trim()) return
isBlank(input) == trim(input) = <<>>

\* The history rows of type update of a project.
updatesOf(table, projectId) ==
    Select(table, LAMBDA r : r.project_id = projectId /\ r.change_type = "update")

\* The tables and the timer after a save the response started, if it
\* started one.
savedTabs(tabsInput) ==
    IF IsSome(tabsInput) THEN saveTabs(dashboard_tabs, OpenProjectId, Val(tabsInput))
    ELSE dashboard_tabs

savedFilters(filterNames) ==
    IF IsSome(filterNames) THEN saveFilters(filters, Val(filterNames)) ELSE filters

savedAdditional(content) ==
    IF IsSome(content)
    THEN saveAdditionalRequirement(additional_requirements, OpenProjectId, Val(content))
    ELSE additional_requirements

savedTimeout(saved) ==
    IF IsSome(saved) THEN debouncedSave(Val(saved).field, Val(saved).value) ELSE saveTimeout

updatedProject(updated) ==
    IF IsSome(updated) THEN updateProject(Val(updated).field, Val(updated).value)
    ELSE UNCHANGED <<projects, editor, change_history>>

\* What handleSend does with the response of generateResponse: the new
\* conversation state, and the saves the response started.
ApplyResponse(r) ==
    /\ conversationState' = r.newState
    /\ functional_requirements' =
           functionalRequirementsAfter(r.effects, OpenProjectId, functional_requirements)
    /\ dashboard_tabs' = savedTabs(EffectOf(r.effects, "saveTabs"))
    /\ filters' = savedFilters(EffectOf(r.effects, "saveFilters"))
    /\ additional_requirements' = savedAdditional(EffectOf(r.effects, "saveAdditionalRequirement"))
    /\ saveTimeout' = savedTimeout(EffectOf(r.effects, "debouncedSave"))
    /\ updatedProject(EffectOf(r.effects, "updateProject"))

\* The functional chat's Send: handleSend and, one second later, the response
\* it scheduled, with the saves generateResponse starts.  A blank input
\* returns at once.
HandleSend(input) ==
    /\ IsSome(editor.project)
    /\ editor.activeTab = "functional"
    /\ IF isBlank(input) THEN UNCHANGED vars
       ELSE
        /\ ApplyResponse(generateResponse(input, conversationState))
        /\ Len(additional_requirements') <= MaxAdditional
        /\ Len(updatesOf(change_history', OpenProjectId)) <= MaxUpdates
        /\ UNCHANGED <<design_requirements, tasks, nextProjectId, nextTaskId, app,
                       listDeleteDialog, orphanTimeouts, designState, taskList,
                       draggedTaskId, sessionVars>>

\* handleSend up to its timer: the input is taken and isTyping is set, which
\* disables the input until the response.
isTyping == \E i \in 1..Len(inflight) : inflight[i].op = "response"

HandleSendSubmit(input) ==
    /\ IsSome(editor.project)
    /\ editor.activeTab = "functional"
    /\ ~isBlank(input)
    /\ ~isTyping
    /\ Len(inflight) < MaxInflight
    /\ inflight' = Append(inflight, [op |-> "response", input |-> input])
    /\ UNCHANGED <<dbVars, app, listDeleteDialog, editor, saveTimeout, orphanTimeouts,
                   conversationState, designState, taskList, draggedTaskId, user, download, otherChat>>

\* The saves of the requirements row, of the tabs and of the filters that a
\* response has started for a project: each has sent its first request, the
\* select of saveFunctionalRequirements or the delete of saveTabs and
\* saveFilters, and goes on when the store answers.
startedSaves(effects, projectId) ==
    LET saves == SelectSeq(effects,
                           LAMBDA e : e.kind \in {"saveFunctionalRequirements", "saveTabs",
                                                  "saveFilters"})
    IN  [k \in 1..Len(saves) |->
             IF saves[k].kind = "saveFunctionalRequirements"
             THEN [op |-> "select", projectId |-> projectId, updates |-> saves[k].arg]
             ELSE IF saves[k].kind = "saveTabs"
             THEN [op |-> "tabsDelete", projectId |-> projectId, tabsInput |-> saves[k].arg]
             ELSE [op |-> "filtersDelete", filterNames |-> saves[k].arg]]

\* The timer of handleSend, one second later: generateResponse starts its
\* saves and returns, the new conversation state is set and isTyping is
\* cleared.  No save is awaited; the saves of the project's fields and of an
\* additional requirement, of one request each, are taken as done at once.
HandleSendResponse ==
    \E i \in 1..Len(inflight) :
        /\ inflight[i].op = "response"
        /\ IsSome(editor.project)
        /\ LET r == generateResponse(inflight[i].input, conversationState)
           IN  /\ conversationState' = r.newState
               /\ additional_requirements' =
                      savedAdditional(EffectOf(r.effects, "saveAdditionalRequirement"))
               /\ saveTimeout' = savedTimeout(EffectOf(r.effects, "debouncedSave"))
               /\ updatedProject(EffectOf(r.effects, "updateProject"))
               /\ inflight' = removeAt(inflight, i) \o startedSaves(r.effects, OpenProjectId)
        /\ Len(inflight') <= MaxInflight
        /\ Len(additional_requirements') <= MaxAdditional
        /\ Len(updatesOf(change_history', OpenProjectId)) <= MaxUpdates
        /\ UNCHANGED <<functional_requirements, design_requirements, dashboard_tabs, filters,
                       tasks, nextProjectId, nextTaskId, app, listDeleteDialog, orphanTimeouts,
                       designState, taskList, draggedTaskId, user, download, otherChat>>

\* The store answers the select of a saveFunctionalRequirements: the save
\* knows whether the project has its row.
SaveFunctionalRequirementsSelect ==
    \E i \in 1..Len(inflight) :
        /\ inflight[i].op = "select"
        /\ inflight' =
               [inflight EXCEPT ![i] =
                    [op |-> "write", projectId |-> @.projectId, updates |-> @.updates,
                     existing |-> IsSome(maybeSingle(
                         Select(functional_requirements,
                                LAMBDA r : r.project_id = inflight[i].projectId)))]]
        /\ UNCHANGED <<dbVars, app, listDeleteDialog, editor, saveTimeout, orphanTimeouts,
                       conversationState, designState, taskList, draggedTaskId, user,
                       download, otherChat>>

\* The rest of a saveFunctionalRequirements: the update of the project's rows
\* when the select found the row, the insert of a row otherwise.
SaveFunctionalRequirementsWrite ==
    \E i \in 1..Len(inflight) :
        /\ inflight[i].op = "write"
        /\ functional_requirements' =
               IF inflight[i].existing
               THEN [k \in 1..Len(functional_requirements) |->
                        IF functional_requirements[k].project_id = inflight[i].projectId
                        THEN [functional_requirements[k] EXCEPT
                                  !.data_sources = Merged(@, inflight[i].updates.data_sources),
                                  !.metrics = Merged(@, inflight[i].updates.metrics)]
                        ELSE functional_requirements[k]]
               ELSE Append(functional_requirements,
                           [project_id |-> inflight[i].projectId,
                            data_sources |-> inflight[i].updates.data_sources,
                            metrics |-> inflight[i].updates.metrics])
        /\ inflight' = removeAt(inflight, i)
        /\ UNCHANGED <<projects, design_requirements, dashboard_tabs, filters,
                       additional_requirements, tasks, change_history, nextProjectId,
                       nextTaskId, app, listDeleteDialog, editor, saveTimeout, orphanTimeouts,
                       conversationState, designState, taskList, draggedTaskId, user,
                       download, otherChat>>

\* The store has run the delete of a saveTabs: the project has no tabs.
SaveTabsDelete ==
    \E i \in 1..Len(inflight) :
        /\ inflight[i].op = "tabsDelete"
        /\ dashboard_tabs' =
               Select(dashboard_tabs, LAMBDA r : r.project_id # inflight[i].projectId)
        /\ inflight' = [inflight EXCEPT ![i].op = "tabsInsert"]
        /\ UNCHANGED <<projects, functional_requirements, design_requirements, filters,
                       additional_requirements, tasks, change_history, nextProjectId,
                       nextTaskId, app, listDeleteDialog, editor, saveTimeout, orphanTimeouts,
                       conversationState, designState, taskList, draggedTaskId, user,
                       download, otherChat>>

\* The rest of a saveTabs: the insert of the answer's tabs, which are the rows
\* saveTabs leaves in a table with no row.
SaveTabsInsert ==
    \E i \in 1..Len(inflight) :
        /\ inflight[i].op = "tabsInsert"
        /\ dashboard_tabs' =
               dashboard_tabs \o saveTabs(<<>>, inflight[i].projectId, inflight[i].tabsInput)
        /\ inflight' = removeAt(inflight, i)
        /\ UNCHANGED <<projects, functional_requirements, design_requirements, filters,
                       additional_requirements, tasks, change_history, nextProjectId,
                       nextTaskId, app, listDeleteDialog, editor, saveTimeout, orphanTimeouts,
                       conversationState, designState, taskList, draggedTaskId, user,
                       download, otherChat>>

\* The store has run the delete of a saveFilters: no filter without a tab is
\* left.
SaveFiltersDelete ==
    \E i \in 1..Len(inflight) :
        /\ inflight[i].op = "filtersDelete"
        /\ filters' = Select(filters, LAMBDA r : r.tab_id # 0)
        /\ inflight' = [inflight EXCEPT ![i].op = "filtersInsert"]
        /\ UNCHANGED <<projects, functional_requirements, design_requirements,
                       dashboard_tabs, additional_requirements, tasks, change_history,
                       nextProjectId, nextTaskId, app, listDeleteDialog, editor, saveTimeout,
                       orphanTimeouts, conversationState, designState, taskList,
                       draggedTaskId, user, download, otherChat>>

\* The rest of a saveFilters: the insert of the answer's filters, which are
\* the rows saveFilters leaves in a table with no row.
SaveFiltersInsert ==
    \E i \in 1..Len(inflight) :
        /\ inflight[i].op = "filtersInsert"
        /\ filters' = filters \o saveFilters(<<>>, inflight[i].filterNames)
        /\ inflight' = removeAt(inflight, i)
        /\ UNCHANGED <<projects, functional_requirements, design_requirements,
                       dashboard_tabs, additional_requirements, tasks, change_history,
                       nextProjectId, nextTaskId, app, listDeleteDialog, editor, saveTimeout,
                       orphanTimeouts, conversationState, designState, taskList,
                       draggedTaskId, user, download, otherChat>>

\* A second session opens the functional chat of a project: its
\* initializeChat reads the store.
OtherInitializeChat(projectId) ==
    /\ otherChat = None
    /\ projectId \in DOMAIN projects
    /\ otherChat' = Some([projectId |-> projectId,
                          state |-> initializeChat(projects, projectId)])
    /\ UNCHANGED <<dbVars, app, listDeleteDialog, editor, saveTimeout, orphanTimeouts,
                   conversationState, designState, taskList, draggedTaskId, user, download,
                   inflight>>

\* The second session's Send with its response, at the tabs or the filters
\* step: the response starts the step's save for the session's project.
OtherHandleSend(input) ==
    /\ IsSome(otherChat)
    /\ Val(otherChat).state.step \in {"tabs", "filters"}
    /\ ~isBlank(input)
    /\ LET r == generateResponse(input, Val(otherChat).state)
       IN  /\ otherChat' = Some([Val(otherChat) EXCEPT !.state = r.newState])
           /\ inflight' = inflight \o startedSaves(r.effects, Val(otherChat).projectId)
    /\ Len(inflight') <= MaxInflight
    /\ UNCHANGED <<dbVars, app, listDeleteDialog, editor, saveTimeout, orphanTimeouts,
                   conversationState, designState, taskList, draggedTaskId, user, download>>

\* The design chat's Send: handleSendMessage with processUserInput.  A blank
\* input returns at once.
HandleSendMessage(input) ==
    /\ IsSome(editor.project)
    /\ editor.activeTab = "design"
    /\ IF isBlank(input) THEN UNCHANGED vars
       ELSE
        /\ designState' = processUserInput(trim(input), designState)
        /\ design_requirements' =
               IF designState.step = "complete" THEN design_requirements
               ELSE saveDesignRequirements(design_requirements, OpenProjectId,
                                           designUpdates(designState.step, trim(input)))
        /\ UNCHANGED <<projects, functional_requirements, dashboard_tabs, filters,
                       additional_requirements, tasks, change_history, nextProjectId,
                       nextTaskId, app, listDeleteDialog, editor, saveTimeout,
                       orphanTimeouts, conversationState, taskList, draggedTaskId, sessionVars>>

\* An edit of one of the header's three inputs.
HandleHeaderChange(field, value) ==
    /\ IsSome(editor.project)
    /\ saveTimeout' = debouncedSave(field, value)
    /\ UNCHANGED <<dbVars, app, listDeleteDialog, editor, orphanTimeouts, conversationState,
                   designState, taskList, draggedTaskId, sessionVars>>

HandleNameChange(value) == HandleHeaderChange("name", value)

HandleDescriptionChange(value) == HandleHeaderChange("description", value)

HandleAudienceChange(value) == HandleHeaderChange("audience", value)

\* A timer that stays pending when it has fired, for C13 to tell from the
\* code's.
TimerFiresAgain ==
    /\ IsSome(saveTimeout)
    /\ projects' = updateRow(projects, Val(saveTimeout).projectId, Val(saveTimeout).field,
                             Val(saveTimeout).value)
    /\ UNCHANGED <<functional_requirements, design_requirements, dashboard_tabs, filters,
                   additional_requirements, tasks, change_history, nextProjectId, nextTaskId,
                   app, listDeleteDialog, editor, saveTimeout, orphanTimeouts,
                   conversationState, designState, taskList, draggedTaskId, sessionVars>>

\* The debounced save's timer fires, one second after the last call: the row
\* of the project the call was made for is updated and the editor's copy
\* follows.
SaveTimeoutFire ==
    /\ IsSome(saveTimeout)
    /\ projects' = updateRow(projects, Val(saveTimeout).projectId, Val(saveTimeout).field,
                             Val(saveTimeout).value)
    /\ editor' = [editor EXCEPT !.project =
                      IF IsSome(@)
                      THEN Some([Val(@) EXCEPT ![Val(saveTimeout).field] = Val(saveTimeout).value])
                      ELSE @]
    /\ saveTimeout' = None
    /\ UNCHANGED <<functional_requirements, design_requirements, dashboard_tabs, filters,
                   additional_requirements, tasks, change_history, nextProjectId, nextTaskId,
                   app, listDeleteDialog, orphanTimeouts, conversationState, designState,
                   taskList, draggedTaskId, sessionVars>>

\* The timer of an editor that is no longer mounted fires: the row is updated;
\* the setProject of the unmounted editor changes nothing.
OrphanTimeoutFire ==
    \E timer \in orphanTimeouts :
        /\ projects' = updateRow(projects, timer.projectId, timer.field, timer.value)
        /\ orphanTimeouts' = orphanTimeouts \ {timer}
        /\ UNCHANGED <<functional_requirements, design_requirements, dashboard_tabs, filters,
                       additional_requirements, tasks, change_history, nextProjectId,
                       nextTaskId, app, listDeleteDialog, editor, saveTimeout,
                       conversationState, designState, taskList, draggedTaskId, sessionVars>>

(***************************************************************************)
(* The store's foreign keys.                                               *)
(***************************************************************************)
\* projects.parent_project_id REFERENCES projects(id), with no ON DELETE
\* action: a project that another one names as its parent cannot be deleted.
deleteAllowed(projs, id) == \A c \in DOMAIN projs : projs[c].parent_project_id # id

\* filters.project_id REFERENCES projects(id) ON DELETE CASCADE: the rows of the
\* deleted projects go with them.  A row whose project_id is NULL (0) belongs
\* to no project and stays.
cascade(table, gone) == Select(table, LAMBDA r : r.project_id \notin gone)

\* The other tables that hold a project_id cascade from projects in the same
\* way.
cascadeDependent(table, gone) == cascade(table, gone)

\* The policy "Authenticated users can delete projects": FOR DELETE TO
\* authenticated USING (true).  The policies of functional_requirements,
\* design_requirements and change_history read the same.
deletePolicy(row) == user # NoUser /\ TRUE

\* supabase.from('projects').delete().eq('id', id): the projects table after
\* it; the delete removes nothing when the policy hides the row, and fails
\* when a child still names the row.
deleteProjectRow(projs, id) ==
    IF id \in DOMAIN projs /\ deletePolicy(projs[id]) /\ deleteAllowed(projs, id)
    THEN [p \in DOMAIN projs \ {id} |-> projs[p]]
    ELSE projs

\* The store after a sequence of such deletes: the ids are deleted in order,
\* each with the rows that cascade from it.
RECURSIVE projectsAfterDeletes(_, _)
projectsAfterDeletes(projs, ids) ==
    IF ids = <<>> THEN projs
    ELSE projectsAfterDeletes(deleteProjectRow(projs, Head(ids)), Tail(ids))

DeleteProjectRows(ids) ==
    /\ projects' = projectsAfterDeletes(projects, ids)
    /\ functional_requirements' =
           cascadeDependent(functional_requirements, DOMAIN projects \ DOMAIN projects')
    /\ design_requirements' =
           cascadeDependent(design_requirements, DOMAIN projects \ DOMAIN projects')
    /\ dashboard_tabs' = cascadeDependent(dashboard_tabs, DOMAIN projects \ DOMAIN projects')
    /\ filters' = cascade(filters, DOMAIN projects \ DOMAIN projects')
    /\ additional_requirements' =
           cascadeDependent(additional_requirements, DOMAIN projects \ DOMAIN projects')
    /\ tasks' = cascadeDependent(tasks, DOMAIN projects \ DOMAIN projects')
    /\ change_history' = cascadeDependent(change_history, DOMAIN projects \ DOMAIN projects')

(***************************************************************************)
(* App and ProjectList.                                                    *)
(***************************************************************************)
InitialApp == [selectedProjectId |-> 0, creatingNew |-> FALSE, newProjectName |-> None]

InitialEditor ==
    [project |-> None, activeTab |-> "functional", showEnhancementDialog |-> FALSE,
     showDeleteDialog |-> FALSE]

\* App renders the editor when a project is selected or a new one has a name,
\* and the list otherwise.
EditorShown ==
    \/ app.selectedProjectId # 0
    \/ (app.creatingNew /\ TruthyString(app.newProjectName))

\* App renders the sign-in page while no user is signed in.
ListShown == user # NoUser /\ ~EditorShown

showCreateDialog == app.creatingNew /\ ~TruthyString(app.newProjectName)

S_NewDashboardProject ==
    <<"N", "e", "w", " ", "D", "a", "s", "h", "b", "o", "a", "r", "d", " ", "P", "r", "o", "j",
      "e", "c", "t">>

\* The row createNewProject inserts.
newProject(id, projectName) ==
    [id |-> id,
     name |-> IF TruthyString(projectName) THEN Val(projectName) ELSE S_NewDashboardProject,
     description |-> <<>>, audience |-> <<>>, status |-> "draft", version_number |-> 1,
     parent_project_id |-> 0, has_appendix_tab |-> Some(FALSE),
     has_metric_logic_tab |-> Some(FALSE), created_by |-> user]

\* The list's New Dashboard Project button.
OpenCreateDialog ==
    /\ ListShown
    /\ app' = [app EXCEPT !.newProjectName = Some(<<>>), !.creatingNew = TRUE]
    /\ UNCHANGED <<dbVars, listDeleteDialog, editor, saveTimeout, orphanTimeouts, conversationState,
                   designState, taskList, draggedTaskId, sessionVars>>

CancelCreate ==
    /\ ListShown
    /\ showCreateDialog
    /\ app' = [app EXCEPT !.creatingNew = FALSE]
    /\ UNCHANGED <<dbVars, listDeleteDialog, editor, saveTimeout, orphanTimeouts, conversationState,
                   designState, taskList, draggedTaskId, sessionVars>>

\* The create dialog's Create Project with a name typed: App shows the editor
\* with no project id, and the editor's mount effect runs createNewProject.
ConfirmCreate(typed, cap) ==
    /\ ListShown
    /\ showCreateDialog
    /\ trim(typed) # <<>>
    /\ nextProjectId <= cap
    /\ app' = [app EXCEPT !.newProjectName = Some(trim(typed)), !.creatingNew = TRUE]
    /\ projects' = [p \in DOMAIN projects \cup {nextProjectId} |->
                        IF p = nextProjectId THEN newProject(nextProjectId, Some(trim(typed)))
                        ELSE projects[p]]
    /\ nextProjectId' = nextProjectId + 1
    /\ change_history' = createChangeHistory(change_history, nextProjectId, "create")
    /\ editor' = [InitialEditor EXCEPT
                      !.project = Some(newProject(nextProjectId, Some(trim(typed))))]
    /\ MountTab("functional", projects', nextProjectId)
    /\ listDeleteDialog' = 0
    /\ UNCHANGED <<functional_requirements, design_requirements, dashboard_tabs, filters,
                   additional_requirements, tasks, nextTaskId, saveTimeout, orphanTimeouts>>

\* The click event that the empty list's Create Project button hands to
\* onCreateProject in the place of a name: an object, truthy, no typed string.
ClickEvent ==
    <<"[", "o", "b", "j", "e", "c", "t", " ", "O", "b", "j", "e", "c", "t", "]">>

\* The Create Project button of the empty list, onClick={onCreateProject}: App
\* stores the click event as the new project's name and shows the editor with
\* no project id, whose mount effect runs createNewProject with the event as
\* the name.  The insert of a row whose name is an object either fails, and
\* the editor stays without a project, or stores what the client made of it.
EmptyStateCreate(cap) ==
    /\ ListShown
    /\ DOMAIN projects = {}
    /\ app' = [app EXCEPT !.newProjectName = Some(ClickEvent), !.creatingNew = TRUE]
    /\ \E inserted \in BOOLEAN :
           IF inserted
           THEN /\ nextProjectId <= cap
                /\ projects' = [p \in DOMAIN projects \cup {nextProjectId} |->
                                    IF p = nextProjectId
                                    THEN newProject(nextProjectId, Some(ClickEvent))
                                    ELSE projects[p]]
                /\ nextProjectId' = nextProjectId + 1
                /\ change_history' = createChangeHistory(change_history, nextProjectId, "create")
                /\ editor' = [InitialEditor EXCEPT
                                  !.project = Some(newProject(nextProjectId, Some(ClickEvent)))]
                /\ MountTab("functional", projects', nextProjectId)
           ELSE /\ editor' = InitialEditor
                /\ conversationState' = InitialConversationState
                /\ designState' = InitialDesignState
                /\ taskList' = <<>>
                /\ draggedTaskId' = 0
                /\ UNCHANGED <<projects, nextProjectId, change_history, sessionVars>>
    /\ listDeleteDialog' = 0
    /\ UNCHANGED <<functional_requirements, design_requirements, dashboard_tabs, filters,
                   additional_requirements, tasks, nextTaskId, saveTimeout, orphanTimeouts>>

\* A click on a project of the list: App shows the editor, whose mount effect
\* runs loadProject.
SelectProject(id) ==
    /\ ListShown
    /\ id \in DOMAIN projects
    /\ app' = [app EXCEPT !.selectedProjectId = id]
    /\ editor' = [InitialEditor EXCEPT !.project = Some(projects[id])]
    /\ MountTab("functional", projects, id)
    /\ listDeleteDialog' = 0
    /\ UNCHANGED <<dbVars, saveTimeout, orphanTimeouts>>

\* The trash button of a project of the list.
OpenListDeleteDialog(id) ==
    /\ ListShown
    /\ id \in DOMAIN projects
    /\ listDeleteDialog' = id
    /\ UNCHANGED <<dbVars, app, editor, saveTimeout, orphanTimeouts, conversationState, designState,
                   taskList, draggedTaskId, sessionVars>>

CancelListDelete ==
    /\ ListShown
    /\ listDeleteDialog # 0
    /\ listDeleteDialog' = 0
    /\ UNCHANGED <<dbVars, app, editor, saveTimeout, orphanTimeouts, conversationState, designState,
                   taskList, draggedTaskId, sessionVars>>

\* ProjectList.handleDelete: one delete, of the row itself; its error, if
\* any, is not looked at.
HandleDelete ==
    /\ ListShown
    /\ listDeleteDialog # 0
    /\ DeleteProjectRows(<<listDeleteDialog>>)
    /\ listDeleteDialog' = 0
    /\ UNCHANGED <<nextProjectId, nextTaskId, app, editor, saveTimeout, orphanTimeouts, conversationState,
                   designState, taskList, draggedTaskId, sessionVars>>

\* The list's Sign Out button: App shows the sign-in page and the list is
\* unmounted.
SignOut ==
    /\ ListShown
    /\ user' = NoUser
    /\ listDeleteDialog' = 0
    /\ UNCHANGED <<dbVars, app, editor, saveTimeout, orphanTimeouts, conversationState,
                   designState, taskList, draggedTaskId, download, inflight, otherChat>>

\* A user signs in: App shows the list, which loads the projects of every
\* user.
SignIn(u) ==
    /\ user = NoUser
    /\ u \in Users
    /\ user' = u
    /\ UNCHANGED <<dbVars, app, listDeleteDialog, editor, saveTimeout, orphanTimeouts,
                   conversationState, designState, taskList, draggedTaskId, download,
                   inflight, otherChat>>

(***************************************************************************)
(* ProjectEditor: the header's buttons and the two dialogs.                *)
(***************************************************************************)
\* Back to Projects: App shows the list again and the editor is unmounted.
OnBackState ==
    /\ app' = InitialApp
    /\ editor' = InitialEditor
    /\ saveTimeout' = None
    /\ orphanTimeouts' = orphanTimeouts \cup {saveTimeout[i] : i \in 1..Len(saveTimeout)}
    /\ UnmountEditor

OnBack ==
    /\ IsSome(editor.project)
    /\ OnBackState
    /\ UNCHANGED <<dbVars, listDeleteDialog>>

\* The Mark as Done button is disabled once the status is done.
markAsDoneEnabled == Val(editor.project).status # "done"

MarkAsDone ==
    /\ IsSome(editor.project)
    /\ markAsDoneEnabled
    /\ updateProject("status", "done")
    /\ UNCHANGED <<functional_requirements, design_requirements, dashboard_tabs, filters,
                   additional_requirements, tasks, nextProjectId, nextTaskId, app,
                   listDeleteDialog, saveTimeout, orphanTimeouts, conversationState, designState, taskList,
                   draggedTaskId, sessionVars>>

\* A preview update that writes the status with the texts, for C30 to tell
\* from the code's.
PreviewResetsStatus(localName, localDescription, localAudience, localDataSources, localMetrics) ==
    /\ IsSome(editor.project)
    /\ editor.activeTab = "functional"
    /\ projects' = [projects EXCEPT ![OpenProjectId] =
                        [@ EXCEPT !.name = localName, !.description = localDescription,
                                  !.audience = localAudience, !.status = "draft"]]
    /\ editor' = [editor EXCEPT !.project =
                      Some([Val(@) EXCEPT !.name = localName,
                                          !.description = localDescription,
                                          !.audience = localAudience])]
    /\ change_history' = createChangeHistory(change_history, OpenProjectId, "update")
    /\ functional_requirements' =
           saveFunctionalRequirements(
               functional_requirements, OpenProjectId,
               [data_sources |-> Some(filterNonEmpty(mapTrim(split(localDataSources)))),
                metrics |-> Some(filterNonEmpty(mapTrim(split(localMetrics))))])
    /\ UNCHANGED <<design_requirements, dashboard_tabs, filters, additional_requirements,
                   tasks, nextProjectId, nextTaskId, app, listDeleteDialog, saveTimeout,
                   orphanTimeouts, conversationState, designState, taskList, draggedTaskId,
                   sessionVars>>

\* DocumentPreview.handleUpdate, the preview's Save in edit mode: the three
\* texts of the header are written to the project row and handed to the
\* editor's updateProject, which writes them again with a history row; the
\* data sources and the metrics are split, trimmed and written without their
\* empty entries to the requirements row, which is inserted when the preview
\* has loaded none.
PreviewHandleUpdate(localName, localDescription, localAudience, localDataSources, localMetrics) ==
    /\ IsSome(editor.project)
    /\ editor.activeTab = "functional"
    /\ projects' = [projects EXCEPT ![OpenProjectId] =
                        [@ EXCEPT !.name = localName, !.description = localDescription,
                                  !.audience = localAudience]]
    /\ editor' = [editor EXCEPT !.project =
                      Some([Val(@) EXCEPT !.name = localName,
                                          !.description = localDescription,
                                          !.audience = localAudience])]
    /\ change_history' = createChangeHistory(change_history, OpenProjectId, "update")
    /\ functional_requirements' =
           saveFunctionalRequirements(
               functional_requirements, OpenProjectId,
               [data_sources |-> Some(filterNonEmpty(mapTrim(split(localDataSources)))),
                metrics |-> Some(filterNonEmpty(mapTrim(split(localMetrics))))])
    /\ UNCHANGED <<design_requirements, dashboard_tabs, filters, additional_requirements,
                   tasks, nextProjectId, nextTaskId, app, listDeleteDialog, saveTimeout,
                   orphanTimeouts, conversationState, designState, taskList, draggedTaskId,
                   sessionVars>>

\* A button that is always enabled, for C4 to tell from the code's.
buttonAlwaysEnabled == TRUE

\* The Create Enhancement button is disabled unless the status is done.
createEnhancementEnabled == Val(editor.project).status = "done"

OpenEnhancementDialog ==
    /\ IsSome(editor.project)
    /\ createEnhancementEnabled
    /\ ~editor.showEnhancementDialog
    /\ editor' = [editor EXCEPT !.showEnhancementDialog = TRUE]
    /\ UNCHANGED <<dbVars, app, listDeleteDialog, saveTimeout, orphanTimeouts, conversationState,
                   designState, taskList, draggedTaskId, sessionVars>>

CancelEnhancementDialog ==
    /\ IsSome(editor.project)
    /\ editor.showEnhancementDialog
    /\ editor' = [editor EXCEPT !.showEnhancementDialog = FALSE]
    /\ UNCHANGED <<dbVars, app, listDeleteDialog, saveTimeout, orphanTimeouts, conversationState,
                   designState, taskList, draggedTaskId, sessionVars>>

\* An enhancement whose parent is the project it was made from, for C5 to tell
\* from the code's.
selfOf(project) == project.id

\* project.parent_project_id || project.id
rootOf(project) ==
    IF project.parent_project_id # 0 THEN project.parent_project_id ELSE project.id

\* getLatestVersion: the largest version_number among the root and the
\* projects whose parent is the root; the project's own when the query finds
\* no row.
getLatestVersion(projs, project) ==
    LET family == {p \in DOMAIN projs :
                       p = rootOf(project) \/ projs[p].parent_project_id = rootOf(project)}
    IN  IF family = {} THEN project.version_number
        ELSE CHOOSE v \in {projs[p].version_number : p \in family} :
                 \A p \in family : projs[p].version_number <= v

Digits == <<"0", "1", "2", "3", "4", "5", "6", "7", "8", "9">>

\* `${n}` for a natural number n.
RECURSIVE numberToString(_)
numberToString(n) ==
    IF n < 10 THEN <<Digits[n + 1]>>
    ELSE numberToString(n \div 10) \o <<Digits[(n % 10) + 1]>>

S_EnhancementV ==
    <<" ", "-", " ", "E", "n", "h", "a", "n", "c", "e", "m", "e", "n", "t", " ", "v">>

\* An enhancement that is a full copy of the project, for C12 to tell from the
\* code's.
copyOfProject(id, projs, project) == [project EXCEPT !.id = id]

\* The row createEnhancement inserts for the project the editor shows.
enhancementProject(id, projs, project) ==
    [id |-> id,
     name |-> project.name \o S_EnhancementV
              \o numberToString(getLatestVersion(projs, project) + 1),
     description |-> project.description, audience |-> project.audience, status |-> "draft",
     version_number |-> getLatestVersion(projs, project) + 1,
     parent_project_id |-> rootOf(project), has_appendix_tab |-> project.has_appendix_tab,
     has_metric_logic_tab |-> project.has_metric_logic_tab, created_by |-> user]

\* The dialog's Create: createEnhancement.  The editor then shows the new
\* project; a mounted chat keeps its conversation state (it is initialized
\* once), the task manager loads the new project's tasks.
CreateEnhancement(cap) ==
    /\ IsSome(editor.project)
    /\ editor.showEnhancementDialog
    /\ nextProjectId <= cap
    /\ LET row == enhancementProject(nextProjectId, projects, Val(editor.project))
       IN  /\ projects' = [p \in DOMAIN projects \cup {nextProjectId} |->
                               IF p = nextProjectId THEN row ELSE projects[p]]
           /\ editor' = [editor EXCEPT !.project = Some(row), !.showEnhancementDialog = FALSE]
    /\ nextProjectId' = nextProjectId + 1
    /\ change_history' = createChangeHistory(change_history, nextProjectId, "version")
    /\ taskList' = IF editor.activeTab = "tasks" THEN loadTasks(nextProjectId) ELSE taskList
    /\ UNCHANGED <<functional_requirements, design_requirements, dashboard_tabs, filters,
                   additional_requirements, tasks, nextTaskId, app, listDeleteDialog,
                   saveTimeout, orphanTimeouts, conversationState, designState, draggedTaskId, sessionVars>>

\* createEnhancement up to its first await: getLatestVersion has read the
\* store.  The dialog stays open, and its Create button enabled, until the
\* insert returns.
CreateEnhancementRead ==
    /\ IsSome(editor.project)
    /\ editor.showEnhancementDialog
    /\ Len(inflight) < MaxInflight
    /\ inflight' = Append(inflight,
                          [op |-> "createEnhancement", project |-> Val(editor.project),
                           latestVersion |-> getLatestVersion(projects, Val(editor.project))])
    /\ UNCHANGED <<dbVars, app, listDeleteDialog, editor, saveTimeout, orphanTimeouts,
                   conversationState, designState, taskList, draggedTaskId, user, download, otherChat>>

\* The row createEnhancement inserts once getLatestVersion has returned
\* latestVersion.
enhancementOfVersion(id, project, latestVersion) ==
    [id |-> id,
     name |-> project.name \o S_EnhancementV \o numberToString(latestVersion + 1),
     description |-> project.description, audience |-> project.audience, status |-> "draft",
     version_number |-> latestVersion + 1,
     parent_project_id |-> rootOf(project), has_appendix_tab |-> project.has_appendix_tab,
     has_metric_logic_tab |-> project.has_metric_logic_tab, created_by |-> user]

\* The rest of a createEnhancement that has read the latest version: the
\* insert, the history row, and the editor shows the new project.
CreateEnhancementInsert(cap) ==
    \E i \in 1..Len(inflight) :
        /\ inflight[i].op = "createEnhancement"
        /\ IsSome(editor.project)
        /\ nextProjectId <= cap
        /\ LET row == enhancementOfVersion(nextProjectId, inflight[i].project,
                                           inflight[i].latestVersion)
           IN  /\ projects' = [p \in DOMAIN projects \cup {nextProjectId} |->
                                   IF p = nextProjectId THEN row ELSE projects[p]]
               /\ editor' = [editor EXCEPT !.project = Some(row),
                                           !.showEnhancementDialog = FALSE]
        /\ nextProjectId' = nextProjectId + 1
        /\ change_history' = createChangeHistory(change_history, nextProjectId, "version")
        /\ taskList' = IF editor.activeTab = "tasks" THEN loadTasks(nextProjectId) ELSE taskList
        /\ inflight' = removeAt(inflight, i)
        /\ UNCHANGED <<functional_requirements, design_requirements, dashboard_tabs, filters,
                       additional_requirements, tasks, nextTaskId, app, listDeleteDialog,
                       saveTimeout, orphanTimeouts, conversationState, designState,
                       draggedTaskId, user, download, otherChat>>

OpenDeleteDialog ==
    /\ IsSome(editor.project)
    /\ ~editor.showDeleteDialog
    /\ editor' = [editor EXCEPT !.showDeleteDialog = TRUE]
    /\ UNCHANGED <<dbVars, app, listDeleteDialog, saveTimeout, orphanTimeouts, conversationState,
                   designState, taskList, draggedTaskId, sessionVars>>

CancelDeleteDialog ==
    /\ IsSome(editor.project)
    /\ editor.showDeleteDialog
    /\ editor' = [editor EXCEPT !.showDeleteDialog = FALSE]
    /\ UNCHANGED <<dbVars, app, listDeleteDialog, saveTimeout, orphanTimeouts, conversationState,
                   designState, taskList, draggedTaskId, sessionVars>>

\* The ids of the projects whose parent is id, in the order the select
\* returns them.
RECURSIVE childProjects(_, _, _)
childProjects(projs, id, from) ==
    IF \A c \in DOMAIN projs : c < from THEN <<>>
    ELSE LET c == CHOOSE c \in DOMAIN projs : c >= from /\ \A d \in DOMAIN projs : d >= from => c <= d
         IN  (IF projs[c].parent_project_id = id THEN <<c>> ELSE <<>>)
             \o childProjects(projs, id, c + 1)

\* The delete dialog's Delete: deleteProject deletes the children, then the
\* project, and goes back to the list when the last delete reports no error.
DeleteProject ==
    /\ IsSome(editor.project)
    /\ editor.showDeleteDialog
    /\ DeleteProjectRows(childProjects(projects, OpenProjectId, 1) \o <<OpenProjectId>>)
    /\ IF OpenProjectId \notin DOMAIN projects'
       THEN OnBackState
       ELSE UNCHANGED <<app, editor, saveTimeout, orphanTimeouts, conversationState,
                        designState, taskList, draggedTaskId, sessionVars>>
    /\ UNCHANGED <<nextProjectId, nextTaskId, listDeleteDialog>>

(***************************************************************************)
(* TasksManager: the handlers of the task list.                            *)
(***************************************************************************)
TasksShown == IsSome(editor.project) /\ editor.activeTab = "tasks"

\* Math.max(...tasks.map(t => t.order_index)), or -1 for no task.
maxOrder(list) ==
    IF Len(list) > 0
    THEN CHOOSE m \in {list[i].order_index : i \in 1..Len(list)} :
             \A i \in 1..Len(list) : list[i].order_index <= m
    ELSE -1

\* The Add button: the row is inserted after the largest order_index of the
\* tasks the component holds, and appended to them.
AddTask(newTaskDescription, cap) ==
    /\ TasksShown
    /\ trim(newTaskDescription) # <<>>
    /\ nextTaskId <= cap
    /\ LET data == [id |-> nextTaskId, project_id |-> OpenProjectId,
                    description |-> trim(newTaskDescription),
                    order_index |-> maxOrder(taskList) + 1, completed |-> FALSE]
       IN  /\ tasks' = Append(tasks, data)
           /\ taskList' = Append(taskList, data)
    /\ nextTaskId' = nextTaskId + 1
    /\ UNCHANGED <<projects, functional_requirements, design_requirements, dashboard_tabs,
                   filters, additional_requirements, change_history, nextProjectId, app,
                   listDeleteDialog, editor, saveTimeout, orphanTimeouts, conversationState,
                   designState, draggedTaskId, sessionVars>>

\* The checkbox of the task at a position of the list.
ToggleTaskCompletion(i) ==
    /\ TasksShown
    /\ i \in 1..Len(taskList)
    /\ tasks' = [k \in 1..Len(tasks) |->
                     IF tasks[k].id = taskList[i].id
                     THEN [tasks[k] EXCEPT !.completed = ~taskList[i].completed]
                     ELSE tasks[k]]
    /\ taskList' = [taskList EXCEPT ![i].completed = ~@]
    /\ UNCHANGED <<projects, functional_requirements, design_requirements, dashboard_tabs,
                   filters, additional_requirements, change_history, nextProjectId,
                   nextTaskId, app, listDeleteDialog, editor, saveTimeout, orphanTimeouts,
                   conversationState, designState, draggedTaskId, sessionVars>>

\* The trash button of the task at a position of the list.
DeleteTask(i) ==
    /\ TasksShown
    /\ i \in 1..Len(taskList)
    /\ tasks' = Select(tasks, LAMBDA r : r.id # taskList[i].id)
    /\ taskList' = Select(taskList, LAMBDA r : r.id # taskList[i].id)
    /\ UNCHANGED <<projects, functional_requirements, design_requirements, dashboard_tabs,
                   filters, additional_requirements, change_history, nextProjectId,
                   nextTaskId, app, listDeleteDialog, editor, saveTimeout, orphanTimeouts,
                   conversationState, designState, draggedTaskId, sessionVars>>

HandleDragStart(i) ==
    /\ TasksShown
    /\ i \in 1..Len(taskList)
    /\ draggedTaskId' = taskList[i].id
    /\ UNCHANGED <<dbVars, app, listDeleteDialog, editor, saveTimeout, orphanTimeouts,
                   conversationState, designState, taskList, sessionVars>>

\* tasks.findIndex(t => t.id === taskId), from 0; -1 when no task has the id.
findIndex(list, taskId) ==
    IF \E i \in 1..Len(list) : list[i].id = taskId
    THEN (CHOOSE i \in 1..Len(list) :
              list[i].id = taskId /\ \A j \in 1..(i - 1) : list[j].id # taskId) - 1
    ELSE -1

\* The start position of splice(start, ...) on a list, from 0: a negative
\* start counts from the end.
spliceStart(list, start) ==
    IF start < 0 THEN (IF Len(list) + start < 0 THEN 0 ELSE Len(list) + start)
    ELSE IF start > Len(list) THEN Len(list) ELSE start

\* The list after splice(start, 1).
spliceOut(list, start) ==
    SubSeq(list, 1, spliceStart(list, start))
    \o SubSeq(list, spliceStart(list, start) + 2, Len(list))

\* The list after splice(start, 0, item).
spliceIn(list, start, item) ==
    SubSeq(list, 1, spliceStart(list, start)) \o <<item>>
    \o SubSeq(list, spliceStart(list, start) + 1, Len(list))

\* newTasks of handleDrop: the dragged task taken out and put in at dropIndex.
reordered(list, draggedIndex, dropIndex) ==
    spliceIn(spliceOut(list, draggedIndex), dropIndex,
             list[spliceStart(list, draggedIndex) + 1])

\* A drop that writes nothing, for C7 to tell from the code's.
orderKept(table, newTasks) == table

\* The tasks table after the updates of handleDrop: every row whose id is in
\* newTasks gets the position it has there.
orderWritten(table, newTasks) ==
    [k \in 1..Len(table) |->
         IF findIndex(newTasks, table[k].id) >= 0
         THEN [table[k] EXCEPT !.order_index = findIndex(newTasks, table[k].id)]
         ELSE table[k]]

\* A drop on the task at dropIndex (from 0).  A drop on the dragged task's own
\* position only ends the drag.
HandleDrop(dropIndex) ==
    /\ TasksShown
    /\ draggedTaskId # 0
    /\ dropIndex \in 0..(Len(taskList) - 1)
    /\ LET draggedIndex == findIndex(taskList, draggedTaskId)
           newTasks == reordered(taskList, draggedIndex, dropIndex)
       IN  IF draggedIndex = dropIndex
           THEN UNCHANGED <<tasks, taskList>>
           ELSE /\ taskList' = newTasks
                /\ tasks' = orderWritten(tasks, newTasks)
    /\ draggedTaskId' = 0
    /\ UNCHANGED <<projects, functional_requirements, design_requirements, dashboard_tabs,
                   filters, additional_requirements, change_history, nextProjectId,
                   nextTaskId, app, listDeleteDialog, editor, saveTimeout, orphanTimeouts,
                   conversationState, designState, sessionVars>>

HandleDragEnd ==
    /\ TasksShown
    /\ draggedTaskId # 0
    /\ draggedTaskId' = 0
    /\ UNCHANGED <<dbVars, app, listDeleteDialog, editor, saveTimeout, orphanTimeouts,
                   conversationState, designState, taskList, sessionVars>>

(***************************************************************************)
(* The exports: the editor's Export button and the list's Download button. *)
(***************************************************************************)
\* name.replace(/\s+/g, '_'): each run of white space becomes one underscore.
RECURSIVE replaceWhitespace(_)
replaceWhitespace(s) ==
    IF s = <<>> THEN <<>>
    ELSE IF IsSpace(s[1])
         THEN <<"_">> \o replaceWhitespace(SubSeq(s, SkipSpaces(s, 1), Len(s)))
    ELSE <<s[1]>> \o replaceWhitespace(Tail(s))

\* a.download of ProjectEditor.exportDocuments.
exportFileName(project) ==
    replaceWhitespace(project.name) \o <<"_", "v">>
    \o numberToString(project.version_number) \o <<".", "m", "d">>

\* a.download of ProjectList.handleDownload.
downloadFileName(projectName) == replaceWhitespace(projectName) \o <<".", "m", "d">>

\* The editor's Export button: the file is named after the editor's project.
ExportDocuments ==
    /\ IsSome(editor.project)
    /\ download' = Some(exportFileName(Val(editor.project)))
    /\ UNCHANGED <<dbVars, app, listDeleteDialog, editor, saveTimeout, orphanTimeouts,
                   conversationState, designState, taskList, draggedTaskId, user, inflight, otherChat>>

\* The Download button of a project of the list: the file is named after the
\* name the list shows for the project.
HandleDownload(projectId) ==
    /\ ListShown
    /\ projectId \in DOMAIN projects
    /\ download' = Some(downloadFileName(projects[projectId].name))
    /\ UNCHANGED <<dbVars, app, listDeleteDialog, editor, saveTimeout, orphanTimeouts,
                   conversationState, designState, taskList, draggedTaskId, user, inflight, otherChat>>

(***************************************************************************)
(* The program after construction: an empty store, and App showing the     *)
(* project list.                                                           *)
(***************************************************************************)
Init ==
    /\ projects = <<>>
    /\ functional_requirements = <<>>
    /\ design_requirements = <<>>
    /\ dashboard_tabs = <<>>
    /\ filters = <<>>
    /\ additional_requirements = <<>>
    /\ tasks = <<>>
    /\ change_history = <<>>
    /\ nextProjectId = 1
    /\ nextTaskId = 1
    /\ app = InitialApp
    /\ listDeleteDialog = 0
    /\ editor = InitialEditor
    /\ saveTimeout = None
    /\ orphanTimeouts = {}
    /\ conversationState = InitialConversationState
    /\ designState = InitialDesignState
    /\ taskList = <<>>
    /\ draggedTaskId = 0
    /\ user = "u1"
    /\ download = None
    /\ inflight = <<>>
    /\ otherChat = None

(***************************************************************************)
(* What the user types.                                                    *)
(***************************************************************************)
I_x == <<"x">>

I_list == <<" ", "a", " ", ",", " ", "b", " ", ",", ",", "c">>

I_NoNe == <<"N", "o", "N", "e">>

I_empty == <<>>

I_space == <<" ">>

I_P == <<"P">>

I_t == <<"t">>

I_DoNe == <<"D", "o", "N", "e">>

I_aToB == <<"a", " ", "t", "o", " ", "b">>

I_changeMetrics ==
    <<"c", "h", "a", "n", "g", "e", " ", "m", "e", "t", "r", "i", "c", "s", " ", "t", "o", " ", "R", "e", "v", "e", "n", "u", "e", ",", " ", "P", "r", "o", "f", "i", "t">>

I_changeMetricsName ==
    <<"c", "h", "a", "n", "g", "e", " ", "m", "e", "t", "r", "i", "c", "s", " ", "t", "o", " ", "R", "e", "v", "e", "n", "u", "e", ",", " ", "C", "u", "s", "t", "o", "m", "e", "r", " ", "N", "a", "m", "e">>

\* The answers of the functional chat's questionnaire.
FunctionalInputs == {I_list, I_NoNe, I_empty, I_space}

\* The answers of the design chat's questionnaire.
DesignInputs == {I_list, S_none, I_empty, I_space}

\* The messages sent once the questionnaire is answered.
I_metricsToAName ==
    <<"m", "e", "t", "r", "i", "c", "s", " ", "t", "o", " ", "a", " ", "n", "a", "m", "e">>

EditInputs ==
    {I_changeMetrics, I_changeMetricsName, S_done, I_DoNe, S_help, S_question, I_aToB, I_x,
     I_metricsToAName}

\* The questionnaire answered with x, then the messages of EditInputs.
EditInputsAt(step) == IF step \in {"additional", "complete"} THEN EditInputs ELSE {I_x}

(***************************************************************************)
(* The functional chat of one project.                                     *)
(***************************************************************************)
NextFunctional ==
    \/ OpenCreateDialog
    \/ CancelCreate
    \/ ConfirmCreate(I_P, MaxChatProjects)
    \/ \E tab \in EditorTabs : SetActiveTab(tab)
    \/ \E input \in FunctionalInputs : HandleSend(input)
    \/ SaveTimeoutFire

SpecFunctional == Init /\ [][NextFunctional]_vars

(***************************************************************************)
(* Both chats of one project.                                              *)
(***************************************************************************)
NextChats ==
    \/ OpenCreateDialog
    \/ CancelCreate
    \/ ConfirmCreate(I_P, MaxChatProjects)
    \/ \E tab \in EditorTabs : SetActiveTab(tab)
    \/ HandleSend(I_list)
    \/ \E input \in DesignInputs : HandleSendMessage(input)
    \/ SaveTimeoutFire

SpecChats == Init /\ [][NextChats]_vars

(***************************************************************************)
(* The edit commands of the functional chat.                               *)
(***************************************************************************)
NextEdit ==
    \/ OpenCreateDialog
    \/ CancelCreate
    \/ ConfirmCreate(I_P, MaxChatProjects)
    \/ \E tab \in EditorTabs : SetActiveTab(tab)
    \/ \E input \in EditInputsAt(conversationState.step) : HandleSend(input)
    \/ SaveTimeoutFire

SpecEdit == Init /\ [][NextEdit]_vars

(***************************************************************************)
(* The project lifecycle.                                                  *)
(***************************************************************************)
NextLifecycle ==
    \/ OpenCreateDialog
    \/ CancelCreate
    \/ ConfirmCreate(I_P, MaxProjects)
    \/ OnBack
    \/ \E id \in DOMAIN projects : SelectProject(id)
    \/ \E id \in DOMAIN projects : OpenListDeleteDialog(id)
    \/ CancelListDelete
    \/ HandleDelete
    \/ MarkAsDone
    \/ OpenEnhancementDialog
    \/ CancelEnhancementDialog
    \/ CreateEnhancement(MaxProjects)
    \/ OpenDeleteDialog
    \/ CancelDeleteDialog
    \/ DeleteProject

SpecLifecycle == Init /\ [][NextLifecycle]_vars

\* deleteProject up to its first await: the select of the children is sent
\* and its answer kept; the deletes follow one await at a time.
DeleteProjectSelect ==
    /\ IsSome(editor.project)
    /\ editor.showDeleteDialog
    /\ \A i \in 1..Len(inflight) : inflight[i].op # "deleteTree"
    /\ Len(inflight) < MaxInflight
    /\ inflight' = Append(inflight,
                          [op |-> "deleteTree", projectId |-> OpenProjectId,
                           childProjects |-> childProjects(projects, OpenProjectId, 1),
                           deleted |-> 0])
    /\ UNCHANGED <<dbVars, editorVars, user, download, otherChat>>

\* One turn of deleteProject's loop: the delete of the next child.
DeleteProjectChild ==
    \E i \in 1..Len(inflight) :
        /\ inflight[i].op = "deleteTree"
        /\ inflight[i].deleted < Len(inflight[i].childProjects)
        /\ DeleteProjectRows(<<inflight[i].childProjects[inflight[i].deleted + 1]>>)
        /\ inflight' = [inflight EXCEPT ![i].deleted = @ + 1]
        /\ UNCHANGED <<nextProjectId, nextTaskId, editorVars, user, download, otherChat>>

\* The end of deleteProject: the delete of the project itself, and onBack when
\* it reports no error; on an error the editor stays as it is.
DeleteProjectRoot ==
    \E i \in 1..Len(inflight) :
        /\ inflight[i].op = "deleteTree"
        /\ inflight[i].deleted = Len(inflight[i].childProjects)
        /\ DeleteProjectRows(<<inflight[i].projectId>>)
        /\ inflight' = removeAt(inflight, i)
        /\ IF projects' # projects
           THEN /\ app' = InitialApp
                /\ editor' = InitialEditor
                /\ saveTimeout' = None
                /\ orphanTimeouts' =
                       orphanTimeouts \cup {saveTimeout[k] : k \in 1..Len(saveTimeout)}
                /\ conversationState' = InitialConversationState
                /\ designState' = InitialDesignState
                /\ taskList' = <<>>
                /\ draggedTaskId' = 0
                /\ UNCHANGED listDeleteDialog
           ELSE UNCHANGED editorVars
        /\ UNCHANGED <<nextProjectId, nextTaskId, user, download, otherChat>>

\* createEnhancement of another session that has the project open: its row
\* and its history row are inserted.
OtherCreateEnhancement(id, cap) ==
    /\ id \in DOMAIN projects
    /\ projects[id].status = "done"
    /\ nextProjectId <= cap
    /\ projects' = [p \in DOMAIN projects \cup {nextProjectId} |->
                        IF p = nextProjectId
                        THEN enhancementProject(nextProjectId, projects, projects[id])
                        ELSE projects[p]]
    /\ nextProjectId' = nextProjectId + 1
    /\ change_history' = createChangeHistory(change_history, nextProjectId, "version")
    /\ UNCHANGED <<functional_requirements, design_requirements, dashboard_tabs, filters,
                   additional_requirements, tasks, nextTaskId, editorVars, sessionVars>>

(***************************************************************************)
(* The editor's delete of a project with its enhancements, one request at  *)
(* a time, while another session creates an enhancement.                   *)
(***************************************************************************)
NextTreeDelete ==
    \/ OpenCreateDialog
    \/ CancelCreate
    \/ ConfirmCreate(I_P, MaxChatProjects)
    \/ MarkAsDone
    \/ OpenEnhancementDialog
    \/ CancelEnhancementDialog
    \/ CreateEnhancement(MaxProjects)
    \/ OnBack
    \/ \E id \in DOMAIN projects : SelectProject(id)
    \/ OpenDeleteDialog
    \/ CancelDeleteDialog
    \/ DeleteProjectSelect
    \/ DeleteProjectChild
    \/ DeleteProjectRoot
    \/ \E id \in DOMAIN projects : OtherCreateEnhancement(id, MaxProjects)

SpecTreeDelete == Init /\ [][NextTreeDelete]_vars

(***************************************************************************)
(* The status of a project under everything the editor does to it: header  *)
(* edits, chat answers and edits, preview updates, mark-done and           *)
(* create-enhancement.                                                     *)
(***************************************************************************)
StatusInputs == {I_x, I_changeMetricsName}

NextStatus ==
    \/ OpenCreateDialog
    \/ CancelCreate
    \/ ConfirmCreate(I_P, MaxChatProjects)
    \/ (saveTimeout = None /\ HandleNameChange(I_t))
    \/ \E input \in StatusInputs :
           (/\ saveTimeout = None
            /\ Cardinality(DOMAIN projects) = 1
            /\ conversationState.step \in {"additional", "complete"} \/ input = I_x
            /\ HandleSend(input))
    \/ SaveTimeoutFire
    \/ (Len(change_history) < MaxHistory
        /\ PreviewHandleUpdate(I_t, I_x, I_x, I_list, I_list))
    \/ MarkAsDone
    \/ OpenEnhancementDialog
    \/ CancelEnhancementDialog
    \/ CreateEnhancement(MaxProjects)

SpecStatus == Init /\ [][NextStatus]_vars

(***************************************************************************)
(* The project list: its buttons that create, open and delete projects.   *)
(***************************************************************************)
\* What the user types into the create dialog.
CreateInputs == {I_P, I_x, I_space, I_list}

NextList ==
    \/ OpenCreateDialog
    \/ CancelCreate
    \/ \E typed \in CreateInputs : ConfirmCreate(typed, MaxProjects)
    \/ EmptyStateCreate(MaxProjects)
    \/ OnBack
    \/ \E id \in DOMAIN projects : SelectProject(id)
    \/ \E id \in DOMAIN projects : OpenListDeleteDialog(id)
    \/ CancelListDelete
    \/ HandleDelete

SpecList == Init /\ [][NextList]_vars

(***************************************************************************)
(* The task manager of one project.                                        *)
(***************************************************************************)
NextTasks ==
    \/ OpenCreateDialog
    \/ CancelCreate
    \/ ConfirmCreate(I_P, MaxChatProjects)
    \/ \E tab \in EditorTabs : SetActiveTab(tab)
    \/ AddTask(I_t, MaxTasks)
    \/ \E i \in 1..Len(taskList) : ToggleTaskCompletion(i)
    \/ \E i \in 1..Len(taskList) : DeleteTask(i)
    \/ \E i \in 1..Len(taskList) : HandleDragStart(i)
    \/ \E dropIndex \in 0..(Len(taskList) - 1) : HandleDrop(dropIndex)
    \/ HandleDragEnd

SpecTasks == Init /\ [][NextTasks]_vars

(***************************************************************************)
(* The versions of one project: its requirements and tasks are entered     *)
(* while it is the only project, it is marked done and enhancements are    *)
(* made from it and from them.                                             *)
(***************************************************************************)
NextVersions ==
    \/ OpenCreateDialog
    \/ CancelCreate
    \/ ConfirmCreate(I_P, MaxChatProjects)
    \/ \E tab \in EditorTabs : SetActiveTab(tab)
    \/ (Cardinality(DOMAIN projects) = 1 /\ HandleSend(I_x))
    \/ (Cardinality(DOMAIN projects) = 1 /\ AddTask(I_t, MaxTasks))
    \/ MarkAsDone
    \/ OpenEnhancementDialog
    \/ CancelEnhancementDialog
    \/ CreateEnhancement(MaxProjects)
    \/ SaveTimeoutFire

SpecVersions == Init /\ [][NextVersions]_vars

(***************************************************************************)
(* The header of the editor: the name, the description and the audience    *)
(* of one project are edited.                                              *)
(***************************************************************************)
HeaderFields == {"name", "description", "audience"}

\* The values typed into a field of the header.
HeaderInputs == {I_x, I_t, I_empty}

NextHeader ==
    \/ OpenCreateDialog
    \/ CancelCreate
    \/ ConfirmCreate(I_P, MaxChatProjects)
    \/ \E value \in HeaderInputs : HandleNameChange(value)
    \/ \E value \in HeaderInputs : HandleDescriptionChange(value)
    \/ \E value \in HeaderInputs : HandleAudienceChange(value)
    \/ SaveTimeoutFire

SpecHeader == Init /\ [][NextHeader]_vars

(***************************************************************************)
(* The exports of the versions of a project, from the editor and from the  *)
(* list.                                                                   *)
(***************************************************************************)
I_aTwoSpacesB == <<"a", " ", " ", "b">>

ExportNames == {I_P, I_aToB, I_aTwoSpacesB}

NextExport ==
    \/ OpenCreateDialog
    \/ CancelCreate
    \/ \E typed \in ExportNames : ConfirmCreate(typed, MaxChatProjects)
    \/ OnBack
    \/ \E id \in 1..MaxProjects : SelectProject(id)
    \/ MarkAsDone
    \/ OpenEnhancementDialog
    \/ CancelEnhancementDialog
    \/ CreateEnhancement(MaxProjects)
    \/ ExportDocuments
    \/ \E id \in 1..MaxProjects : HandleDownload(id)

SpecExport == Init /\ [][NextExport]_vars

(***************************************************************************)
(* Two users of one store: each signs in, creates projects and deletes     *)
(* projects, from the list and from the editor.                            *)
(***************************************************************************)
NextAccess ==
    \/ SignOut
    \/ \E u \in Users : SignIn(u)
    \/ OpenCreateDialog
    \/ CancelCreate
    \/ ConfirmCreate(I_P, MaxProjects - 1)
    \/ OnBack
    \/ \E id \in 1..MaxProjects : SelectProject(id)
    \/ \E id \in 1..MaxProjects : OpenListDeleteDialog(id)
    \/ CancelListDelete
    \/ HandleDelete
    \/ OpenDeleteDialog
    \/ CancelDeleteDialog
    \/ DeleteProject

SpecAccess == Init /\ [][NextAccess]_vars

(***************************************************************************)
(* The versions of one project when createEnhancement is not atomic: the   *)
(* dialog's Create can be clicked again while an earlier click waits for   *)
(* the store.                                                              *)
(***************************************************************************)
NextVersionRace ==
    \/ OpenCreateDialog
    \/ CancelCreate
    \/ ConfirmCreate(I_P, MaxChatProjects)
    \/ \E tab \in EditorTabs : SetActiveTab(tab)
    \/ MarkAsDone
    \/ OpenEnhancementDialog
    \/ CancelEnhancementDialog
    \/ CreateEnhancementRead
    \/ CreateEnhancementInsert(MaxProjects)

SpecVersionRace == Init /\ [][NextVersionRace]_vars

(***************************************************************************)
(* The functional chat of one project when its saves are not atomic: the   *)
(* response comes one second after the input, and each save of the         *)
(* requirements row selects, then writes.                                  *)
(***************************************************************************)
AsyncInputs == {I_x, I_list}

NextSaves ==
    \/ OpenCreateDialog
    \/ CancelCreate
    \/ ConfirmCreate(I_P, MaxChatProjects)
    \/ \E input \in AsyncInputs : HandleSendSubmit(input)
    \/ HandleSendResponse
    \/ SaveFunctionalRequirementsSelect
    \/ SaveFunctionalRequirementsWrite
    \/ SaveTabsDelete
    \/ SaveTabsInsert
    \/ SaveFiltersDelete
    \/ SaveFiltersInsert
    \/ SaveTimeoutFire

SpecSaves == Init /\ [][NextSaves]_vars

(***************************************************************************)
(* Two sessions in the functional chat of one project: the first answers   *)
(* the questions up to the filters, the second opens the chat and answers  *)
(* the tabs and the filters questions.                                     *)
(***************************************************************************)
StepsToFilters ==
    {"name", "description", "audience", "data_sources", "metrics", "tabs", "filters"}

NextSessions ==
    \/ OpenCreateDialog
    \/ CancelCreate
    \/ ConfirmCreate(I_P, MaxChatProjects)
    \/ (conversationState.step \in StepsToFilters /\ HandleSendSubmit(I_x))
    \/ HandleSendResponse
    \/ SaveFunctionalRequirementsSelect
    \/ SaveFunctionalRequirementsWrite
    \/ SaveTabsDelete
    \/ SaveTabsInsert
    \/ SaveFiltersDelete
    \/ SaveFiltersInsert
    \/ SaveTimeoutFire
    \/ \E id \in 1..MaxChatProjects : OtherInitializeChat(id)
    \/ OtherHandleSend(I_t)

SpecSessions == Init /\ [][NextSessions]_vars

(***************************************************************************)
(* Both chats of one project, each answer sent and each tab opened after   *)
(* the debounced save of the answer before it has fired: the response to   *)
(* an answer comes a second after it, as late as the timer of a save that  *)
(* was pending.                                                            *)
(***************************************************************************)
NextReload ==
    \/ OpenCreateDialog
    \/ CancelCreate
    \/ ConfirmCreate(I_P, MaxChatProjects)
    \/ \E tab \in EditorTabs : (saveTimeout = None /\ SetActiveTab(tab))
    \/ \E input \in {I_list, I_NoNe} : (saveTimeout = None /\ HandleSend(input))
    \/ \E input \in {I_list, S_none} : HandleSendMessage(input)
    \/ SaveTimeoutFire

SpecReload == Init /\ [][NextReload]_vars

(***************************************************************************)
(* The properties.                                                         *)
(***************************************************************************)
\* The first of the fields, in order, that is empty; otherwise when none is.
FirstEmpty(fields, Empty(_), otherwise) ==
    IF \E i \in 1..Len(fields) : Empty(fields[i])
    THEN fields[CHOOSE i \in 1..Len(fields) :
                    Empty(fields[i]) /\ \A j \in 1..(i - 1) : ~Empty(fields[j])]
    ELSE otherwise

FunctionalFields == SubSeq(FunctionalSteps, 1, 9)

DesignFields == SubSeq(DesignSteps, 1, 5)

\* A column holds a list with at least one entry.
HoldsList(column) == IsSome(column) /\ Len(Val(column)) > 0

\* The persisted value of a field of the functional flow is empty.
FunctionalFieldEmpty(p, field) ==
    LET row == maybeSingle(Select(functional_requirements, LAMBDA r : r.project_id = p))
    IN  CASE field \in {"name", "description", "audience"} -> projects[p][field] = <<>>
          [] field \in {"data_sources", "metrics"} ->
                 ~(IsSome(row) /\ HoldsList(Val(row)[field]))
          [] field = "tabs" -> Select(dashboard_tabs, LAMBDA r : r.project_id = p) = <<>>
          [] field = "filters" -> Select(filters, LAMBDA r : r.tab_id = 0) = <<>>
          [] field = "appendix" -> ~IsSome(projects[p].has_appendix_tab)
          [] field = "metric_logic" -> ~IsSome(projects[p].has_metric_logic_tab)

\* The persisted value of a field of the design flow is empty; the logo's value
\* is what the logo answer stored, a url or a location.
DesignFieldEmpty(p, field) ==
    LET row == maybeSingle(Select(design_requirements, LAMBDA r : r.project_id = p))
    IN  \/ ~IsSome(row)
        \/ CASE field \in {"dashboard_size"} -> ~TruthyString(Val(row).dashboard_size)
             [] field \in {"color_palette", "fonts"} -> ~HoldsList(Val(row)[field])
             [] field = "logo" -> /\ ~TruthyString(Val(row).logo_url)
                                  /\ ~TruthyString(Val(row).logo_location)
             [] field = "additional" -> ~TruthyString(Val(row).additional_requirements)

FunctionalResumeAtFirstGap ==
    \A p \in DOMAIN projects :
        initializeChat(projects, p).step =
            FirstEmpty(FunctionalFields, LAMBDA f : FunctionalFieldEmpty(p, f), "additional")

DesignResumeAtFirstGap ==
    \A p \in DOMAIN projects :
        designInitializeChat(p).step =
            FirstEmpty(DesignFields, LAMBDA f : DesignFieldEmpty(p, f), "complete")

\* C1: initializing either chat for a project computes as step the first field
\* of the flow's order whose persisted value is empty, whichever later fields
\* are filled, and additional (functional) or complete (design) only when no
\* field is empty.
C1_ResumeAtFirstGap == FunctionalResumeAtFirstGap /\ DesignResumeAtFirstGap

\* The step after a step, in the order of a flow.
Successor(steps, step) ==
    steps[(CHOOSE i \in 1..Len(steps) : steps[i] = step) + 1]

\* C2: in the design flow every submitted answer moves the step to its
\* successor in dashboard_size, color_palette, fonts, logo, additional,
\* complete; an answer at logo advances to additional.
C2_DesignAnswerAdvances ==
    [][\A input \in DesignInputs :
           (/\ trim(input) # <<>>
            /\ designState.step # "complete"
            /\ HandleSendMessage(input))
           => designState'.step = Successor(DesignSteps, designState.step)]_vars

\* The data key a step of the functional flow stores its answer under.
StepKey(step) ==
    CASE step = "appendix" -> "has_appendix"
      [] step = "metric_logic" -> "has_metric_logic"
      [] OTHER -> step

\* next is state after the answer input at a step of the questionnaire: the
\* step is the successor, the answer is under the step's key and no other key
\* changed.
Answered(input, state, next) ==
    /\ next.step = Successor(FunctionalSteps, state.step)
    /\ IsSome(next.data[StepKey(state.step)])
    /\ state.step \in {"name", "description", "audience", "tabs"}
           => next.data[state.step] = Some(input)
    /\ \A k \in DOMAIN state.data \ {StepKey(state.step)} : next.data[k] = state.data[k]

\* C3: in the functional flow every submitted non-empty input at a step from
\* name through metric_logic moves the step to exactly its successor, whatever
\* the input is, and stores the answer under that step's key.  A project that
\* was created with a name resumes after name: the first conjunct is about the
\* answers the chat gets, the second about the answer generateResponse gives at
\* name with the chat's data.
C3_FunctionalAnswerAdvances ==
    [][/\ \A input \in FunctionalInputs :
              (/\ trim(input) # <<>>
               /\ \E i \in 1..9 : FunctionalSteps[i] = conversationState.step
               /\ HandleSend(input))
              => Answered(input, conversationState, conversationState')
       /\ \A input \in FunctionalInputs :
              trim(input) # <<>>
              => Answered(input, [step |-> "name", data |-> conversationState.data],
                          generateResponse(input,
                                           [step |-> "name",
                                            data |-> conversationState.data]).newState)]_vars

\* The chat went through the questionnaire from description to metric_logic,
\* with different answers.
C3_Witness ==
    /\ conversationState.step = "additional"
    /\ conversationState.data.description = Some(I_list)
    /\ conversationState.data.audience = Some(I_NoNe)
    /\ conversationState.data.tabs = Some(I_list)
    /\ IsSome(conversationState.data.filters)
    /\ Len(updatesOf(change_history, OpenProjectId)) = 2

\* The enhancements a step inserts.
InsertedEnhancements ==
    {p \in DOMAIN projects' \ DOMAIN projects : projects'[p].parent_project_id # 0}

\* C4: an enhancement row is inserted only while the project open in the
\* editor has status done; from a draft project none is inserted.
C4_EnhancementOnlyFromDone ==
    [][InsertedEnhancements # {}
       => /\ IsSome(editor.project)
          /\ Val(editor.project).status = "done"
          /\ OpenProjectId \in DOMAIN projects
          /\ projects[OpenProjectId].status = "done"]_vars

C4_Witness == \E p \in DOMAIN projects : projects[p].parent_project_id # 0

\* The largest version_number among a root and the projects whose parent it is.
LatestVersionUnder(root) ==
    LET versions == {projects[p].version_number :
                         p \in {q \in DOMAIN projects :
                                    q = root \/ projects[q].parent_project_id = root}}
    IN  CHOOSE v \in versions : \A w \in versions : w <= v

\* The root of the project open in the editor.
RootOfOpen ==
    IF projects[OpenProjectId].parent_project_id # 0
    THEN projects[OpenProjectId].parent_project_id
    ELSE OpenProjectId

Family(r) == {r} \cup {c \in DOMAIN projects : projects[c].parent_project_id = r}

\* No row of the table belongs to one of the projects.
NoRowsOf(table, ids) == \A k \in 1..Len(table) : table[k].project_id \notin ids

\* C6: after the delete of a root project that has enhancement children, from
\* the editor's Delete or the project list's Delete, neither the root nor a
\* child remains, and no functional requirements, design requirements, tab,
\* filter, task, additional requirement or change history row of any of them.
C6_CascadeDelete ==
    [][\A r \in DOMAIN projects :
           (/\ projects[r].parent_project_id = 0
            /\ Family(r) # {r}
            /\ \/ (listDeleteDialog = r /\ HandleDelete)
               \/ (OpenProjectId = r /\ DeleteProject))
           => /\ Family(r) \cap DOMAIN projects' = {}
              /\ NoRowsOf(functional_requirements', Family(r))
              /\ NoRowsOf(design_requirements', Family(r))
              /\ NoRowsOf(dashboard_tabs', Family(r))
              /\ NoRowsOf(filters', Family(r))
              /\ NoRowsOf(tasks', Family(r))
              /\ NoRowsOf(additional_requirements', Family(r))
              /\ NoRowsOf(change_history', Family(r))]_vars

\* The stored tasks of the project open in the editor.
StoredTasks(table) == Select(table, LAMBDA r : r.project_id = OpenProjectId)

\* The stored order_index values of the tasks are 0 .. n-1, each used once, in
\* the order of the displayed list.
DenseInDisplayedOrder(table, list) ==
    /\ Len(StoredTasks(table)) = Len(list)
    /\ \A i \in 1..Len(list) :
           \E k \in 1..Len(table) : table[k].id = list[i].id /\ table[k].order_index = i - 1
    /\ {StoredTasks(table)[k].order_index : k \in 1..Len(StoredTasks(table))}
           = 0..(Len(list) - 1)

\* C7: after a drag-and-drop reorder the stored order_index values of the
\* project's n tasks are exactly 0 .. n-1, each used once, in the displayed
\* order, whatever gaps or duplicates the stored values had before.
C7_DenseReorder ==
    [][\A dropIndex \in 0..(Len(taskList) - 1) :
           (/\ findIndex(taskList, draggedTaskId) # dropIndex
            /\ HandleDrop(dropIndex))
           => DenseInDisplayedOrder(tasks', taskList')]_vars

\* A reorder has taken place: the stored order is that of the displayed list of
\* two or more tasks, and differs from the order_index values the list holds
\* from before the drop.
C7_Witness ==
    /\ Len(taskList) >= 2
    /\ draggedTaskId = 0
    /\ DenseInDisplayedOrder(tasks, taskList)
    /\ \E i \in 1..Len(taskList) : taskList[i].order_index # i - 1

\* The text after 'change metrics to ' of an edit command.
MetricsText(input) == SubSeq(input, 19, Len(input))

\* C8: an edit command 'change metrics to <list>' sets metrics to the parsed
\* list and changes no other field, also when the word 'name' occurs elsewhere
\* in the message.
C8_ChangeMetricsOnly ==
    [][\A input \in {I_changeMetrics, I_changeMetricsName} :
           (/\ conversationState.step \in {"additional", "complete"}
            /\ HandleSend(input))
           => /\ conversationState'.data.metrics
                     = Some(filterNonEmpty(mapTrim(split(MetricsText(input)))))
              /\ \A k \in {"name", "description", "audience", "data_sources", "tabs",
                           "filters"} :
                     conversationState'.data[k] = conversationState.data[k]
              /\ projects'[OpenProjectId].name = projects[OpenProjectId].name
              /\ saveTimeout' = saveTimeout]_vars

\* The lists the store holds.
StoredLists ==
    {functional_requirements[k][c] :
         k \in 1..Len(functional_requirements), c \in {"data_sources", "metrics"}}
    \cup {design_requirements[k][c] :
              k \in 1..Len(design_requirements), c \in {"color_palette", "fonts"}}

\* C9: at the data_sources, metrics, color_palette and fonts steps the stored
\* list is the input split on commas, each token trimmed, the empty tokens
\* dropped; no stored list contains an empty string.
C9_ListParsing ==
    [][/\ (/\ conversationState.step \in {"data_sources", "metrics"}
           /\ HandleSend(I_list))
          => conversationState'.data[conversationState.step]
                 = Some(filterNonEmpty(mapTrim(split(I_list))))
       /\ \A input \in DesignInputs :
              (/\ trim(input) # <<>>
               /\ designState.step \in {"color_palette", "fonts"}
               /\ HandleSendMessage(input))
              => designState'.data[designState.step]
                     = Some(filterNonEmpty(mapTrim(split(input))))
       /\ \A list \in StoredLists' :
              IsSome(list) => \A i \in 1..Len(Val(list)) : Val(list)[i] # <<>>]_vars

\* C10: at the filters step 'none' in any letter case stores an empty filter
\* list and advances to appendix; an empty or whitespace-only submission is
\* rejected: step and data stay as they are and nothing is written.
C10_NoneVersusBlank ==
    [][\A input \in FunctionalInputs :
           (/\ conversationState.step = "filters"
            /\ HandleSend(input))
           => /\ trim(input) = <<>> => UNCHANGED vars
              /\ toLowerCase(input) = S_none
                     => /\ conversationState'.step = "appendix"
                        /\ conversationState'.data.filters = Some(<<>>)
                        /\ Select(filters', LAMBDA r : r.tab_id = 0) = <<>>]_vars

\* 'NoNe' was the answer at the filters step.
C10_Witness ==
    /\ conversationState.step = "appendix"
    /\ conversationState.data.filters = Some(<<>>)

\* The step of the functional chat wrote nothing: the store and the pending
\* save are as before.
NothingWritten == UNCHANGED <<dbVars, saveTimeout>>

RowsOf(table, p) == Select(table, LAMBDA r : r.project_id = p)

PendingWrite(field, value) == Some([projectId |-> OpenProjectId, field |-> field, value |-> value])

\* C13: in a burst of edits to one free-text field of the header, each before
\* the window of the previous one has run out, exactly one write is issued,
\* after the last edit, and it carries the last value: an edit writes nothing
\* and leaves its own value as the only pending write, and the write that is
\* issued when the window runs out carries the pending value and leaves nothing
\* pending.
C13_DebounceOneWrite ==
    [][/\ \A field \in HeaderFields, value \in HeaderInputs :
              HandleHeaderChange(field, value)
              => /\ UNCHANGED dbVars
                 /\ saveTimeout' = PendingWrite(field, value)
       /\ SaveTimeoutFire
              => /\ projects'[Val(saveTimeout).projectId][Val(saveTimeout).field]
                        = Val(saveTimeout).value
                 /\ saveTimeout' = None
       /\ \A p \in DOMAIN projects \cap DOMAIN projects', field \in HeaderFields :
              projects'[p][field] # projects[p][field]
              => /\ IsSome(saveTimeout)
                 /\ Val(saveTimeout).field = field
                 /\ projects'[p][field] = Val(saveTimeout).value]_vars

\* The name was written as t while the editor is open, and an edit of the name
\* to x is pending.
C13_Witness ==
    /\ OpenProjectId = 1
    /\ projects[1].name = I_t
    /\ saveTimeout = PendingWrite("name", I_x)

\* s with each run of white space replaced by one underscore: the white space
\* that follows white space is dropped, the rest becomes an underscore.
RECURSIVE Underscored(_)
Underscored(s) ==
    IF s = <<>> THEN <<>>
    ELSE LET front == SubSeq(s, 1, Len(s) - 1)
             last == s[Len(s)]
         IN  IF ~IsSpace(last) THEN Append(Underscored(front), last)
             ELSE IF front # <<>> /\ IsSpace(front[Len(front)]) THEN Underscored(front)
             ELSE Append(Underscored(front), "_")

\* <underscored name>_v<version_number>.md
VersionedFileName(project) ==
    Underscored(project.name) \o <<"_", "v">> \o numberToString(project.version_number)
    \o <<".", "m", "d">>

\* C14: every export of a project, by the editor's Export button or by the
\* list's Download button, is named <project name with each run of white
\* space replaced by one underscore>_v<version_number>.md.
C14_ExportFileName ==
    [][/\ ExportDocuments => download' = Some(VersionedFileName(Val(editor.project)))
       /\ \A id \in DOMAIN projects :
              HandleDownload(id) => download' = Some(VersionedFileName(projects[id]))]_vars

\* The editor's half of C14, which the code keeps.
C14_EditorExportFileName ==
    [][ExportDocuments => download' = Some(VersionedFileName(Val(editor.project)))]_vars

\* The project rows a step creates or changes.
ChangedProjects ==
    {p \in DOMAIN projects' : p \notin DOMAIN projects \/ projects'[p] # projects[p]}

\* The history gets one new row, for project p, made by the acting user.
OneHistoryRowFor(p) ==
    /\ Len(change_history') = Len(change_history) + 1
    /\ SubSeq(change_history', 1, Len(change_history)) = change_history
    /\ change_history'[Len(change_history')].project_id = p
    /\ change_history'[Len(change_history')].changed_by = user

\* C15: every successful change to a project row (creation, a header edit of
\* name, description or audience, a chat answer that changes a project field,
\* mark-done, enhancement creation) is accompanied by one appended
\* change-history row for that project with changed_by the acting user.
C15_ProjectChangeLogged == [][\A p \in ChangedProjects : OneHistoryRowFor(p)]_vars

\* C16: authenticated users can only access their own projects: a delete of
\* a project, or of its functional_requirements, design_requirements or
\* change_history rows, issued by a user who did not create the project is
\* rejected by the row-level security policies, and so removes nothing.
C16_OnlyCreatorDeletes ==
    [][\A p \in DOMAIN projects :
           projects[p].created_by # user
               => /\ p \in DOMAIN projects' /\ projects'[p] = projects[p]
                  /\ RowsOf(functional_requirements', p) = RowsOf(functional_requirements, p)
                  /\ RowsOf(design_requirements', p) = RowsOf(design_requirements, p)
                  /\ RowsOf(change_history', p) = RowsOf(change_history, p)]_vars

\* The root of the version tree of the stored project p.
TreeRoot(p) == rootOf(projects[p])

\* C17: in every reachable state, also when create-enhancement runs twice
\* concurrently on one version tree, the projects that share a root have
\* pairwise distinct version numbers, a project created later has a larger
\* number than every project created earlier in the tree, and the root has
\* the smallest number, 1.
C17_VersionsIncrease ==
    /\ \A p, q \in DOMAIN projects :
           (TreeRoot(p) = TreeRoot(q) /\ p < q)
               => projects[p].version_number < projects[q].version_number
    /\ \A p \in DOMAIN projects :
           projects[p].parent_project_id = 0 => projects[p].version_number = 1

\* C18: in every reachable state each project has at most one functional
\* requirements row and at most one design requirements row, also when two
\* saves interleave their check for the existing row and their insert.
C18_OneRequirementsRow ==
    \A p \in DOMAIN projects :
        /\ Len(RowsOf(functional_requirements, p)) <= 1
        /\ Len(RowsOf(design_requirements, p)) <= 1

\* A write that an earlier input started has not reached the store yet: a save
\* of the requirements row between its start and its write, or the debounced
\* save of a project field before its timer fires.
WritesInFlight ==
    \/ \E i \in 1..Len(inflight) : inflight[i].op # "response"
    \/ IsSome(saveTimeout)

\* C20: in both chats, from the moment an input is submitted until every
\* persistence write that input triggered has completed, no further input can
\* be submitted: an input is taken only while no response is awaited and no
\* write is in flight.
C20_OneInputAtATime ==
    [][\A input \in AsyncInputs :
           HandleSendSubmit(input) => ~isTyping /\ ~WritesInFlight]_vars

\* The order_index values of the rows are 0 .. n-1, with no gap and no
\* duplicate.
Dense(rows) == {rows[k].order_index : k \in 1..Len(rows)} = 0..(Len(rows) - 1)

\* C19: after any completed task add or task delete, and after any completed
\* tab replacement or single-tab delete, the order_index values of the
\* project's tasks (respectively tabs) are 0 .. n-1 with no gaps and no
\* duplicates.
C19_DenseAfterAddDelete ==
    [][\A p \in DOMAIN projects :
           /\ Len(RowsOf(tasks', p)) # Len(RowsOf(tasks, p)) => Dense(RowsOf(tasks', p))
           /\ RowsOf(dashboard_tabs', p) # RowsOf(dashboard_tabs, p)
                  => Dense(RowsOf(dashboard_tabs', p))]_vars

\* The names of the rows, in table order.
NamesOf(rows) == [k \in 1..Len(rows) |-> rows[k].name]

\* No save of the kind is on its way to the store.
NoneInFlight(ops) == \A i \in 1..Len(inflight) : inflight[i].op \notin ops

\* Both sessions are in the chat of project p and have answered the step.
BothAnswered(p, key) ==
    /\ OpenProjectId = p
    /\ IsSome(otherChat)
    /\ Val(otherChat).projectId = p
    /\ IsSome(conversationState.data[key])
    /\ IsSome(Val(otherChat).state.data[key])
    /\ ~isTyping

\* C21: when two sessions answer the tabs step, or the filters step, of one
\* project with lists A and B, then once both replacements have completed the
\* stored list is exactly A or exactly B, never a mixture or union of both.
C21_LastWriteWins ==
    \A p \in DOMAIN projects :
        /\ (BothAnswered(p, "tabs") /\ NoneInFlight({"tabsDelete", "tabsInsert"}))
               => \E answer \in {Val(conversationState.data.tabs),
                                 Val(Val(otherChat).state.data.tabs)} :
                      NamesOf(orderByIndex(RowsOf(dashboard_tabs, p)))
                          = NamesOf(saveTabs(<<>>, p, answer))
        /\ (BothAnswered(p, "filters") /\ NoneInFlight({"filtersDelete", "filtersInsert"}))
               => \E answer \in {Val(conversationState.data.filters),
                                 Val(Val(otherChat).state.data.filters)} :
                      NamesOf(Select(filters, LAMBDA r : r.tab_id = 0)) = answer

\* Every write the session has started has reached the store.
WritesCompleted == saveTimeout = None /\ orphanTimeouts = {} /\ inflight = <<>>

\* C22: after any sequence of answered steps whose writes have all completed,
\* re-initializing the chat from the persisted data yields the step the
\* session holds in memory, in the functional and in the design flow.
C22_ReloadKeepsStep ==
    (IsSome(editor.project) /\ WritesCompleted)
        => /\ editor.activeTab = "functional"
                  => initializeChat(projects, OpenProjectId).step = conversationState.step
           /\ editor.activeTab = "design"
                  => designInitializeChat(OpenProjectId).step = designState.step

\* The fields the change interpreter can edit, in the order it looks for their
\* keywords, and the keyword of each.
EditableFields ==
    <<"name", "description", "audience", "data_sources", "metrics", "tabs", "filters">>

KeywordOf(field) ==
    CASE field = "name" -> S_name
      [] field = "description" -> S_description
      [] field = "audience" -> S_audience
      [] field = "data_sources" -> S_data_source
      [] field = "metrics" -> S_metric
      [] field = "tabs" -> S_tab
      [] field = "filters" -> S_filter

\* The positions, in the order, of the fields whose keyword the message holds.
KeywordsIn(input) ==
    {i \in 1..Len(EditableFields) :
         includes(toLowerCase(input), KeywordOf(EditableFields[i]))}

\* The step of the chat hands the message to the change interpreter.
Interpreted(input) ==
    /\ conversationState.step \in {"additional", "complete"}
    /\ toLowerCase(input) \notin {S_done, S_help, S_question}
    /\ looksLikeChange(input)
    /\ HandleSend(input)

\* C23: one change interpreter invocation acts only on the first keyword, in
\* the order name, description, audience, data source, metric, tab, filter,
\* that occurs in the message: no field whose keyword comes later in the
\* order, and no field whose keyword is absent, is updated.
C23_FirstKeywordOnly ==
    [][\A input \in EditInputs :
           Interpreted(input)
               => \A i \in 1..Len(EditableFields) :
                      (\E j \in KeywordsIn(input) : j # i /\ \A k \in KeywordsIn(input) : j <= k)
                      \/ KeywordsIn(input) = {}
                          => conversationState'.data[EditableFields[i]]
                                 = conversationState.data[EditableFields[i]]]_vars

\* C24: when the change interpreter finds no field keyword, or the value it
\* extracts is empty, the conversation state after the call, step and data,
\* equals the state before it and no write is issued, from whichever step,
\* additional or complete, the interpreter was invoked.
C24_NoKeywordNoChange ==
    [][\A input \in EditInputs :
           (/\ Interpreted(input)
            /\ \A i \in KeywordsIn(input) :
                   extractValue(input, patternOf(EditableFields[i])) = <<>>)
               => conversationState' = conversationState /\ NothingWritten]_vars

\* C25: answering or editing the filters in the chat of project P creates
\* global filter rows that belong to P, and leaves the global filter rows of
\* every other project as they were.
C25_FiltersBelongToProject ==
    [][\A input \in FunctionalInputs :
           (/\ conversationState.step = "filters"
            /\ HandleSend(input))
               => /\ \A i \in 1..Len(filters') :
                         (/\ filters'[i].tab_id = 0
                          /\ \E k \in 1..Len(parseFilters(input)) :
                                 filters'[i].name = parseFilters(input)[k])
                             => filters'[i].project_id = OpenProjectId
                  /\ Select(filters', LAMBDA r : r.tab_id = 0 /\ r.project_id # OpenProjectId
                                                   /\ r.project_id # 0)
                         = Select(filters, LAMBDA r : r.tab_id = 0
                                                   /\ r.project_id # OpenProjectId
                                                   /\ r.project_id # 0)]_vars

\* C26: an edit to one field of the header never cancels the pending save of
\* another field, so that the final value of each edited field is written once
\* the user stops: after the edit the save that was pending for the other
\* field is still pending, or its value is in the project row.
C26_EditKeepsOtherSave ==
    [][\A field \in HeaderFields, value \in HeaderInputs :
           (/\ IsSome(saveTimeout)
            /\ Val(saveTimeout).field # field
            /\ HandleHeaderChange(field, value))
               => \/ saveTimeout' = saveTimeout
                  \/ projects'[Val(saveTimeout).projectId][Val(saveTimeout).field]
                         = Val(saveTimeout).value]_vars

\* C27: after create-enhancement has switched the editor to the new project
\* while a chat is displayed, the chat's conversation state is that of the new
\* project: its step is the first empty field of the new project and its data
\* are the new project's persisted values.
C27_ChatFollowsEnhancement ==
    [][CreateEnhancement(MaxProjects)
       => /\ editor'.activeTab = "functional"
                 => conversationState' = initializeChat(projects', nextProjectId)
          /\ editor'.activeTab = "design"
                 => designState' = designInitializeChat(nextProjectId)]_vars

\* C28: a new project row is inserted only after the user has confirmed a
\* non-empty, trimmed name in the create dialog, and the row's name is exactly
\* that string; no click in the project list opens the editor in create mode
\* without such a name, and selecting an existing project never creates a
\* project.
C28_CreateOnlyWithConfirmedName ==
    [][/\ (DOMAIN projects' \ DOMAIN projects # {}
           \/ (app'.creatingNew /\ EditorShown' /\ ~EditorShown))
          => \E typed \in CreateInputs :
                 /\ showCreateDialog
                 /\ trim(typed) # <<>>
                 /\ app'.newProjectName = Some(trim(typed))
                 /\ DOMAIN projects' = DOMAIN projects \cup {nextProjectId}
                 /\ projects'[nextProjectId].name = trim(typed)
       /\ \A id \in DOMAIN projects : SelectProject(id) => projects' = projects]_vars

\* C29: the editor's delete of a root project is all-or-nothing: when the
\* delete of the root row fails, no project of the tree has been removed; it
\* never ends with the enhancement children deleted while the root project
\* still exists.
C29_DeleteAllOrNothing ==
    [][DeleteProjectRoot
       => \A i \in 1..Len(inflight) :
              (/\ inflight[i].op = "deleteTree"
               /\ inflight[i].projectId \in DOMAIN projects')
                  => \A k \in 1..Len(inflight[i].childProjects) :
                         inflight[i].childProjects[k] \in DOMAIN projects']_vars

\* C30: a project's status only ever moves from draft to done: no existing
\* project whose status is done returns to draft under header edits, chat
\* answers and edits, preview updates, mark-done and create-enhancement, and
\* draft occurs only as the initial status of a newly inserted project or
\* enhancement.
C30_StatusDraftToDone ==
    [][/\ \A p \in DOMAIN projects \cap DOMAIN projects' :
              projects'[p].status # projects[p].status
              => projects[p].status = "draft" /\ projects'[p].status = "done"
       /\ \A p \in DOMAIN projects' \ DOMAIN projects : projects'[p].status = "draft"]_vars

\* A project that is done has an enhancement, still a draft, that was named
\* after it before its name was changed to t: the project was edited after it
\* was marked done, and is done.
C30_Witness ==
    \E p, q \in DOMAIN projects :
        /\ projects[p].status = "done"
        /\ projects[q].parent_project_id = p
        /\ projects[q].status = "draft"
        /\ projects[p].name = I_t
        /\ Head(projects[q].name) = "P"
        /\ RowsOf(functional_requirements, p) # <<>>

====
